---- MODULE Spec2Model ----
(***************************************************************************)
(* Model of the model-abstraction core of pyar.mlatom:                     *)
(*   - model.predict / model_tree_node.predict on molecules (SpecTree)     *)
(*   - the validation and hyperparameter-optimisation engine of ml_model   *)
(*     (SpecVal)                                                           *)
(* Python's None is modelled by a flag next to the value (has / ...None),  *)
(* a raised exception by the name of its class in an err field; once an    *)
(* exception is raised the rest of the handler is skipped and the writes   *)
(* made before it stay.                                                    *)
(***************************************************************************)
EXTENDS Integers, Sequences, FiniteSets, TLC

VARIABLES
    \* ---- model trees and molecules
    tree,       \* the model_tree_node objects: id -> fields
    mols,       \* the molecules: id -> top-level properties and per-node containers
    lastCall,   \* the arguments of the last predict call
    lastErr,    \* the exception the last call raised, "none" when it returned
    evals,      \* the (leaf model, molecule) evaluations the last call made
    before,     \* mols as they were when the last call started
    repeated,   \* the last call repeated the one before it, which had returned
    ncalls,     \* number of calls made
    silent,     \* the <<leaf model, molecule>> pairs for which the wrapped model returns
                \* from predict without writing anything
    results,    \* what the last MLatomCalculator.calculate produced
    \* ---- validation / hyperparameter optimisation engine
    ml,         \* the ml_model object
    disk,       \* the model files that exist on disk
    dbs,        \* the caller's molecules: reference and estimated values
    log,        \* the train / predict / reset / loss events of the last call
    res,        \* what the last engine call returned or raised
    nruns,      \* number of engine calls made
    \* ---- hyperparameter and hyperparameters objects
    objs,       \* the hyperparameter objects: identity -> fields
    lists,      \* the list objects: identity -> elements
    sets,       \* the hyperparameters objects hs and c: their keys and the objects stored
    hpLast,     \* the last operation on them and how it ended
    nops,       \* number of operations made
    \* ---- deterministic methods
    env,        \* the environment variables and what is installed
    meth,       \* the last methods object a constructor returned
    mLast,      \* the last call on methods: its arguments, the environment it saw, its outcome
    mPrev,      \* the call before it
    energy,     \* the energy property of the molecules given to ani_methods
    nmeth,      \* number of calls made
    \* ---- the epochs of ani.train
    run,        \* the last ani.train: its arguments, the epochs it validated, the active weights
    afile,      \* the weights stored in the model file (none when the file does not exist)
    ntrain      \* number of trainings made

treeVars == <<tree, mols, lastCall, lastErr, evals, before, repeated, ncalls, silent, results>>
valVars  == <<ml, disk, dbs, log, res, nruns>>
hpVars   == <<objs, lists, sets, hpLast, nops>>
methVars == <<env, meth, mLast, mPrev, energy, nmeth, run, afile, ntrain>>
vars     == <<tree, mols, lastCall, lastErr, evals, before, repeated, ncalls, silent, results,
              ml, disk, dbs, log, res, nruns, objs, lists, sets, hpLast, nops,
              env, meth, mLast, mPrev, energy, nmeth, run, afile, ntrain>>

-----------------------------------------------------------------------------
(* Bounds *)
NMol     == 2      \* molecules the caller owns
NAtoms   == 1      \* atoms per molecule
MaxCalls == 2      \* predict calls per behaviour

Mols  == 1..NMol
Atoms == 1..NAtoms

-----------------------------------------------------------------------------
(* Exact arithmetic on the rationals n/d, d > 0, kept in lowest terms *)
RECURSIVE GCD(_, _)
GCD(a, b) == IF b = 0 THEN a ELSE GCD(b, a % b)

Abs(k) == IF k < 0 THEN -k ELSE k

Rat(n, d) == IF n = 0 THEN [n |-> 0, d |-> 1]
             ELSE LET g == GCD(Abs(n), d) IN [n |-> n \div g, d |-> d \div g]

RInt(k)    == [n |-> k, d |-> 1]
RAdd(x, y) == Rat(x.n * y.d + y.n * x.d, x.d * y.d)
RSub(x, y) == Rat(x.n * y.d - y.n * x.d, x.d * y.d)
RMul(x, y) == Rat(x.n * y.n, x.d * y.d)
RDiv(x, k) == Rat(x.n, x.d * k)
RLess(x, y) == x.n * y.d < y.n * x.d
\* int(x): truncation towards zero
RTrunc(x)  == IF x.n >= 0 THEN x.n \div x.d ELSE -((-x.n) \div x.d)

\* elementwise on arrays of equal length
VAdd(u, v) == [i \in DOMAIN u |-> RAdd(u[i], v[i])]
VDiv(u, k) == [i \in DOMAIN u |-> RDiv(u[i], k)]

-----------------------------------------------------------------------------
(* Molecules and their property bags *)
PropNames == {"energy", "hessian", "energy_gradients"}

NoVal  == [has |-> FALSE, val |-> <<>>]
Val(v) == [has |-> TRUE, val |-> v]

NoContainer ==
    [present |-> FALSE, parent |-> 0, childrenNone |-> TRUE, children |-> <<>>,
     vals |-> [p \in PropNames |-> NoVal]]

FreshMolecule(nodes) ==
    [top  |-> [p \in PropNames |-> NoVal],
     cont |-> [x \in nodes |-> NoContainer]]

SeqSet(s) == {s[i] : i \in DOMAIN s}

-----------------------------------------------------------------------------
(* model_tree_node: construction *)

\* model_tree_node.__init__: parent = 0 and childrenNone = TRUE stand for None
NodeInit(tr, id, par, chNone, ch, op, hasModel) ==
    LET t1 == (id :> [parent |-> par, childrenNone |-> chNone, children |-> ch,
                      operator |-> op, hasModel |-> hasModel]) @@ tr
        t2 == IF par # 0
              THEN [t1 EXCEPT ![par].childrenNone = FALSE,
                              ![par].children = IF id \in SeqSet(@) THEN @ ELSE Append(@, id)]
              ELSE t1
    IN  IF chNone THEN t2
        ELSE [x \in DOMAIN t2 |-> IF x \in SeqSet(ch) THEN [t2[x] EXCEPT !.parent = id]
                                                       ELSE t2[x]]

\* ani_child.node: a leaf wrapping one model
LeafNode(tr, id) == NodeInit(tr, id, 0, TRUE, <<>>, "predict", TRUE)

NoTree == [x \in {} |-> 0]

\* ani_methods.__init__ without D4: one node over the ensemble members
TreeFlat(op) ==
    NodeInit(LeafNode(LeafNode(LeafNode(NoTree, 2), 3), 4), 1, 0, FALSE, <<2, 3, 4>>, op, FALSE)

\* ani_methods.__init__ with D4: root over (node over the members, dispersion leaf)
TreeNested(opRoot, opMid) ==
    LET leaves == LeafNode(LeafNode(LeafNode(NoTree, 3), 4), 5)
        mid    == NodeInit(leaves, 2, 0, FALSE, <<3, 4>>, opMid, FALSE)
    IN  NodeInit(mid, 1, 0, FALSE, <<2, 5>>, opRoot, FALSE)

\* a single leaf used as a whole tree
TreeLeaf == LeafNode(NoTree, 1)

\* a tree built top-down, each leaf naming its parent
TreeByParent(op) ==
    LET root == NodeInit(NoTree, 1, 0, TRUE, <<>>, op, FALSE)
    IN  NodeInit(NodeInit(root, 2, 1, TRUE, <<>>, "predict", TRUE),
                 3, 1, TRUE, <<>>, "predict", TRUE)

Trees == {TreeFlat("sum"), TreeFlat("average"),
          TreeNested("sum", "average"), TreeNested("average", "sum"),
          TreeLeaf, TreeByParent("sum")}

IsLeaf(tr, x) == tr[x].childrenNone /\ tr[x].operator = "predict"

MaxNodes == 3      \* model_tree_node objects constructed per behaviour

\* the dictionaries load_dict is given: a node without children, and a node over
\* one or two such nodes
LeafDicts ==
    {[children |-> <<>>, operator |-> op, model |-> hm] :
        op \in {"predict", "sum"}, hm \in BOOLEAN}
Dicts ==
    LeafDicts \cup
    {[children |-> ch, operator |-> op, model |-> hm] :
        ch \in {<<d>> : d \in LeafDicts} \cup
               {<<d, d>> : d \in {[children |-> <<>>, operator |-> "predict", model |-> TRUE]}},
        op \in {"predict", "sum"}, hm \in BOOLEAN}

RECURSIVE LoadDict(_, _)
RECURSIVE LoadChildren(_, _, _)

\* [load_dict(child_dict) for child_dict in model_dict['children']]: the tree and the
\* nodes made so far
LoadChildren(R, ds, i) ==
    IF i > Len(ds) THEN R
    ELSE CHOOSE R2 \in {LoadChildren([tree |-> L.tree, ids |-> Append(R.ids, L.id)], ds, i + 1) :
                           L \in {LoadDict(R.tree, ds[i])}} : TRUE

\* load_dict(model_dict) for type 'model_tree_node': the children first, an empty
\* list of them becoming None, then the node itself
LoadDict(tr, d) ==
    CHOOSE R2 \in {[tree |-> NodeInit(R.tree, Cardinality(DOMAIN R.tree) + 1, 0,
                                       R.ids = <<>>, R.ids, d.operator, d.model),
                     id   |-> Cardinality(DOMAIN R.tree) + 1] :
                      R \in {LoadChildren([tree |-> tr, ids |-> <<>>], d.children, 1)}} : TRUE
\* a tree in which every node writes its combined value back onto the molecule
AlwaysRoot(tr, x) == TRUE

IsRoot(tr, x) == tr[x].parent = 0

-----------------------------------------------------------------------------
(* Leaf models: each reports fixed values for a molecule *)

\* the values the model wrapped by leaf l computes for molecule m
LeafReport(l, m, p) ==
    IF p = "energy" THEN <<RInt(10 * l + m)>>
    ELSE IF p = "hessian" THEN <<RInt(100 * l + m)>>
    ELSE [a \in Atoms |-> RInt(20 * l + 2 * m + a)]

\* the keyword arguments of a predict call
Flags == {<<TRUE, FALSE, FALSE>>, <<TRUE, TRUE, TRUE>>}
FullDB    == [i \in 1..NMol |-> i]
ReverseDB == [i \in 1..NMol |-> NMol + 1 - i]
Targets ==
    {[hasDB |-> FALSE, db |-> <<>>, hasMol |-> TRUE, mol |-> m] : m \in Mols}
    \cup {[hasDB |-> TRUE, db |-> d, hasMol |-> FALSE, mol |-> 0] : d \in {FullDB, ReverseDB}}
    \cup {[hasDB |-> TRUE, db |-> FullDB, hasMol |-> TRUE, mol |-> 1]}
    \cup {[hasDB |-> FALSE, db |-> <<>>, hasMol |-> FALSE, mol |-> 0]}
Kwargs == {[target |-> t, calculate_energy |-> f[1], calculate_energy_gradients |-> f[2],
            calculate_hessian |-> f[3]] : t \in Targets, f \in Flags}

\* model.predict: the database wins, then the molecule, else ValueError
ModelPredict(kw) ==
    IF kw.target.hasDB THEN [err |-> "none", db |-> kw.target.db]
    ELSE IF kw.target.hasMol THEN [err |-> "none", db |-> <<kw.target.mol>>]
    ELSE [err |-> "ValueError", db |-> <<>>]

\* the properties a call asks for: molecular ones, then atomic ones
Properties(kw) ==
    (IF kw.calculate_energy THEN <<"energy">> ELSE <<>>)
    \o (IF kw.calculate_hessian THEN <<"hessian">> ELSE <<>>)
AtomicProperties(kw) ==
    IF kw.calculate_energy_gradients THEN <<"energy_gradients">> ELSE <<>>

\* ani_child.predict: resolve the molecules through model.predict, then write the
\* requested values onto each molecule (and its atoms); a model that is silent for a
\* molecule (ani_methods.predict_for_molecule on an unsupported element) returns
\* without writing
LeafModelPredict(S, l, kw) ==
    LET r   == ModelPredict(kw)
        ps  == SeqSet(Properties(kw)) \cup SeqSet(AtomicProperties(kw))
        dbm == SeqSet(r.db)
    IN  IF r.err # "none" THEN [S EXCEPT !.err = r.err]
        ELSE [S EXCEPT
                !.mols  = [m \in DOMAIN S.mols |->
                             IF m \in dbm /\ <<l, m>> \notin silent
                             THEN [S.mols[m] EXCEPT !.top =
                                     [p \in PropNames |-> IF p \in ps THEN Val(LeafReport(l, m, p))
                                                          ELSE @[p]]]
                             ELSE S.mols[m]],
                !.evals = @ \o [i \in DOMAIN r.db |-> <<l, r.db[i]>>]]

-----------------------------------------------------------------------------
(* data.properties_tree_node: the per-node container kept on a molecule *)

\* properties_tree_node(name, parent, children) inside one molecule's bag c:
\* the new container links itself into its parent and adopts its children
ContainerInit(c, x, par, chNone, ch) ==
    LET c1 == [c EXCEPT ![x] = [present |-> TRUE, parent |-> par, childrenNone |-> chNone,
                                children |-> ch, vals |-> [p \in PropNames |-> NoVal]]]
        c2 == IF par # 0
              THEN [c1 EXCEPT ![par].childrenNone = FALSE,
                              ![par].children = IF x \in SeqSet(@) THEN @ ELSE Append(@, x)]
              ELSE c1
    IN  IF chNone THEN c2
        ELSE [y \in DOMAIN c2 |-> IF y \in SeqSet(ch) THEN [c2[y] EXCEPT !.parent = x]
                                                       ELSE c2[y]]

RECURSIVE VSum(_, _, _)
\* the elementwise sum of property p over the containers named by ch[i..]
VSum(c, ch, p) ==
    IF Len(ch) = 1 THEN c[ch[1]].vals[p].val
    ELSE VAdd(c[ch[1]].vals[p].val, VSum(c, Tail(ch), p))

\* properties_tree_node.sum / .average for one property: the outcome and the value
ContainerCombine(c, x, p, op) ==
    IF c[x].childrenNone THEN [err |-> "TypeError", val |-> <<>>]
    ELSE IF \E i \in DOMAIN c[x].children : ~c[c[x].children[i]].vals[p].has
         THEN [err |-> "KeyError", val |-> <<>>]
    ELSE IF c[x].children = <<>> THEN [err |-> "none", val |-> <<>>]
    ELSE [err |-> "none",
          val |-> IF op = "sum" THEN VSum(c, c[x].children, p)
                  ELSE VDiv(VSum(c, c[x].children, p), Len(c[x].children))]

-----------------------------------------------------------------------------
(* model_tree_node.predict *)

\* the molecules a tree call works on: 'molecule' overrides 'molecular_database';
\* with neither keyword the local name molDB is never bound
TreeMolDB(kw) ==
    IF kw.target.hasMol THEN [err |-> "none", db |-> <<kw.target.mol>>]
    ELSE IF kw.target.hasDB THEN [err |-> "none", db |-> kw.target.db]
    ELSE [err |-> "UnboundLocalError", db |-> <<>>]

\* the loop that gives every molecule a container for node x
MakeContainers(tr, ms, x, db) ==
    [m \in DOMAIN ms |->
        IF m \in SeqSet(db) /\ ~ms[m].cont[x].present
        THEN LET c   == ms[m].cont
                 par == IF tr[x].parent # 0 /\ c[tr[x].parent].present THEN tr[x].parent ELSE 0
                 ch  == IF tr[x].childrenNone THEN <<>>
                        ELSE SelectSeq(tr[x].children, LAMBDA y : c[y].present)
             IN  [ms[m] EXCEPT !.cont = ContainerInit(c, x, par, ch = <<>>, ch)]
        ELSE ms[m]]

RECURSIVE GetProperties(_, _, _, _, _)
\* get_properties_from_molecule for db[i..]: copy what the wrapped model left on the
\* molecule into the node's container
GetProperties(S, x, db, i, kw) ==
    IF i > Len(db) \/ S.err # "none" THEN S
    ELSE LET m    == db[i]
             top  == S.mols[m].top
             mp   == SeqSet(Properties(kw))
             ap   == SeqSet(AtomicProperties(kw))
             v1   == [p \in PropNames |->
                        IF p \in mp /\ top[p].has THEN top[p] ELSE S.mols[m].cont[x].vals[p]]
             fail == \E p \in ap : ~top[p].has
             v2   == [p \in PropNames |-> IF p \in ap THEN top[p] ELSE v1[p]]
             v1e  == [p \in PropNames |-> IF p \in ap THEN Val(<<>>) ELSE v1[p]]
             S1   == IF fail
                     THEN [S EXCEPT !.mols[m].cont[x].vals = v1e, !.err = "KeyError"]
                     ELSE [S EXCEPT !.mols[m].cont[x].vals = v2]
         IN  GetProperties(S1, x, db, i + 1, kw)

RECURSIVE CombineProps(_, _, _, _, _)
\* one molecule, the requested properties in order, stopping at the first exception
CombineProps(S, x, m, ps, op) ==
    IF ps = <<>> \/ S.err # "none" THEN S
    ELSE LET r == ContainerCombine(S.mols[m].cont, x, Head(ps), op)
         IN  CombineProps(IF r.err # "none" THEN [S EXCEPT !.err = r.err]
                          ELSE [S EXCEPT !.mols[m].cont[x].vals[Head(ps)] = Val(r.val)],
                          x, m, Tail(ps), op)

\* a node that adds the combined value to the one it already holds
CombineOneAccumulate(S, x, m, kw, op) ==
    IF op \notin {"sum", "average"} THEN S
    ELSE LET ps  == Properties(kw) \o AtomicProperties(kw)
             S1  == CombineProps(S, x, m, ps, op)
             old == S.mols[m].cont[x].vals
         IN  IF S1.err # "none" THEN S1
             ELSE [S1 EXCEPT !.mols[m].cont[x].vals =
                     [p \in PropNames |->
                         IF p \in SeqSet(ps) /\ old[p].has
                         THEN Val(VAdd(old[p].val, @[p].val)) ELSE @[p]]]

\* the dispatch on the node's operator for one molecule:
\* mol.__dict__[self.name].sum(...) or .average(...)
CombineOne(S, x, m, kw, op) ==
    IF op \notin {"sum", "average"} THEN S
    ELSE CombineProps(S, x, m, Properties(kw) \o AtomicProperties(kw), op)

RECURSIVE Combine(_, _, _, _, _, _)
\* the sum / average step of predict over db[i..]
Combine(S, x, db, i, kw, op) ==
    IF i > Len(db) \/ S.err # "none" THEN S
    ELSE Combine(CombineOne(S, x, db[i], kw, op), x, db, i + 1, kw, op)

RECURSIVE UpdateProps(_, _, _, _)
UpdateProps(S, x, m, ps) ==
    IF ps = <<>> \/ S.err # "none" THEN S
    ELSE LET v == S.mols[m].cont[x].vals[Head(ps)]
         IN  UpdateProps(IF ~v.has THEN [S EXCEPT !.err = "KeyError"]
                         ELSE IF Head(ps) = "energy_gradients" /\ Len(v.val) < NAtoms
                              THEN [S EXCEPT !.err = "IndexError"]
                         ELSE [S EXCEPT !.mols[m].top[Head(ps)] = v],
                         x, m, Tail(ps))

RECURSIVE UpdateMolecularProperties(_, _, _, _, _)
\* update_molecular_properties over db[i..]: the node's values become the molecule's
UpdateMolecularProperties(S, x, db, i, kw) ==
    IF i > Len(db) \/ S.err # "none" THEN S
    ELSE UpdateMolecularProperties(
             UpdateProps(S, x, db[i], Properties(kw) \o AtomicProperties(kw)),
             x, db, i + 1, kw)

RECURSIVE Predict(_, _, _, _)
RECURSIVE PredictChildren(_, _, _, _, _, _)

\* the loop over the children: a child is evaluated unless the FIRST molecule
\* already carries a container of its name
PredictChildren(tr, S, x, db, i, kw) ==
    IF i > Len(tr[x].children) \/ S.err # "none" THEN S
    ELSE LET ch == tr[x].children[i]
         IN  PredictChildren(tr,
                 IF S.mols[db[1]].cont[ch].present THEN S ELSE Predict(tr, S, ch, kw),
                 x, db, i + 1, kw)

\* model_tree_node.predict(**kwargs) on node x
Predict(tr, S, x, kw) ==
    LET r == TreeMolDB(kw) IN
    IF r.err # "none" THEN [S EXCEPT !.err = r.err]
    ELSE
    LET db == r.db
        S1 == [S EXCEPT !.mols = MakeContainers(tr, S.mols, x, db)]
        S2 == IF IsLeaf(tr, x)
              THEN IF ~tr[x].hasModel THEN [S1 EXCEPT !.err = "AttributeError"]
                   ELSE GetProperties(LeafModelPredict(S1, x, kw), x, db, 1, kw)
              ELSE IF tr[x].childrenNone THEN [S1 EXCEPT !.err = "TypeError"]
              ELSE Combine(PredictChildren(tr, S1, x, db, 1, kw), x, db, 1, kw, tr[x].operator)
    IN  IF IsRoot(tr, x) THEN UpdateMolecularProperties(S2, x, db, 1, kw) ELSE S2

-----------------------------------------------------------------------------
(* The callers of predict *)

NoKwargs == [target |-> [hasDB |-> FALSE, db |-> <<>>, hasMol |-> FALSE, mol |-> 0],
             calculate_energy |-> FALSE, calculate_energy_gradients |-> FALSE,
             calculate_hessian |-> FALSE]
NoCall   == [kind |-> "none", node |-> 0, kw |-> NoKwargs]

\* two tree calls on the same node with the same keyword arguments
SameCall(c1, c2) == c1.kind = "tree" /\ c2.kind = "tree" /\ c1.node = c2.node /\ c1.kw = c2.kw

Called(call, S) ==
    /\ ncalls < MaxCalls
    /\ ncalls'   = ncalls + 1
    /\ repeated' = SameCall(lastCall, call) /\ lastErr = "none"
    /\ before'   = mols
    /\ lastCall' = call
    /\ mols'     = S.mols
    /\ lastErr'  = S.err
    /\ evals'    = S.evals
    /\ UNCHANGED <<tree, silent, results, ml, disk, dbs, log, res, nruns>>
    /\ UNCHANGED <<hpVars, methVars>>

\* a caller invokes predict on a node of the tree
TreePredict(x, kw) ==
    Called([kind |-> "tree", node |-> x, kw |-> kw],
           Predict(tree, [mols |-> mols, err |-> "none", evals |-> <<>>], x, kw))

\* a caller invokes predict on a model that is not a tree (one going through
\* model.predict)
PlainPredict(kw) ==
    Called([kind |-> "model", node |-> 0, kw |-> kw],
           LeafModelPredict([mols |-> mols, err |-> "none", evals |-> <<>>], 0, kw))

\* the results of a calculator before its first calculation
NoResults == [op |-> "none", err |-> "none", energy |-> <<>>, model |-> 0, mol |-> 0,
              evals |-> <<>>]

\* molecule.copy(): the copy carries the properties of the molecule
MoleculeCopy(ms, m) == ms[m]

\* MLatomCalculator(model).calculate on the geometry of molecule m: the model (a tree
\* node, or the plain model 0) predicts energy and gradients on a copy of the
\* molecule, and the energy found on the copy becomes the result
AseCalculate(x, m) ==
    \E kw \in {[target |-> [hasDB |-> FALSE, db |-> <<>>, hasMol |-> TRUE, mol |-> m],
                 calculate_energy |-> TRUE, calculate_energy_gradients |-> TRUE,
                 calculate_hessian |-> FALSE]} :
    \E S0 \in {[mols |-> [mols EXCEPT ![m] = MoleculeCopy(mols, m)], err |-> "none",
                 evals |-> <<>>]} :
    \E S \in {IF x = 0 THEN LeafModelPredict(S0, 0, kw) ELSE Predict(tree, S0, x, kw)} :
        /\ ncalls < MaxCalls
        /\ ncalls' = ncalls + 1
        /\ results' = [op |-> "calculate", model |-> x, mol |-> m, evals |-> S.evals,
                       err |-> IF S.err # "none" THEN S.err
                               ELSE IF ~S.mols[m].top["energy"].has THEN "ValueError"
                               ELSE "none",
                       energy |-> IF S.err = "none" /\ S.mols[m].top["energy"].has
                                  THEN S.mols[m].top["energy"].val ELSE <<>>]
        /\ UNCHANGED <<tree, mols, lastCall, lastErr, evals, before, repeated, silent>>
        /\ UNCHANGED <<valVars, hpVars, methVars>>

\* n = model_tree_node(name, parent, children, operator, model), the parent and the
\* children taken among the nodes that exist
NewNode(par, chNone, ch, op, hasModel) ==
    /\ Cardinality(DOMAIN tree) < MaxNodes
    /\ tree' = NodeInit(tree, Cardinality(DOMAIN tree) + 1, par, chNone, ch, op, hasModel)
    /\ UNCHANGED <<mols, lastCall, lastErr, evals, before, repeated, ncalls, silent, results>>
    /\ UNCHANGED <<valVars, hpVars, methVars>>

\* n = load_dict(d)
Load(d) ==
    \E R \in {LoadDict(tree, d)} :
        /\ Cardinality(DOMAIN R.tree) <= MaxNodes
        /\ tree' = R.tree
        /\ UNCHANGED <<mols, lastCall, lastErr, evals, before, repeated, ncalls, silent, results>>
        /\ UNCHANGED <<valVars, hpVars, methVars>>

-----------------------------------------------------------------------------
(* The validation and hyperparameter-optimisation engine: data and model *)

NData    == 3      \* molecules in the caller's data set
MaxRuns  == 2      \* engine calls per behaviour

Data == 1..NData

\* the reference labels of molecule m: 'y' and its xyz derivatives, one per atom
RefY(m) == 3 * m
RefG(m) == [a \in Atoms |-> m + a]
\* the element symbols of molecule m
Elements(m) == IF m = NData THEN {"H", "O"} ELSE {"H"}
ElementSymbols(db) == UNION {Elements(db[i]) : i \in DOMAIN db}

\* the estimated labels a molecule carries, under the default label names
FreshData == [m \in Data |-> [estimated_y |-> NoVal, estimated_xyz_derivatives_y |-> NoVal]]

\* a hyperparameter value: the number x, or the number 2^x of a log-space hyperparameter
Lin(x)  == [log |-> FALSE, x |-> x]
Exp2(x) == [log |-> TRUE, x |-> x]

\* hyperparameter.__init__
Hyperparameter(value, minval, maxval, space, dtype) ==
    [value |-> value, minval |-> minval, maxval |-> maxval,
     optimization_space |-> space, dtype |-> dtype]

\* hyperparameter.__setattr__('value', v): v is kept if it is of the dtype, cast otherwise
CastDtype(dtype, v) ==
    IF dtype = "int" /\ ~v.log THEN Lin(RInt(RTrunc(v.x))) ELSE v

\* kreg.__init__: self.hyperparameters
KregHyperparameters ==
    [k \in {"lambda", "sigma"} |->
        IF k = "lambda"
        THEN Hyperparameter(Exp2(RInt(-35)), Exp2(RInt(-35)), Exp2(RInt(0)), "log", "float")
        ELSE Hyperparameter(Exp2(RInt(0)), Exp2(RInt(-5)), Exp2(RInt(9)), "log", "float")]

\* ani.hyperparameters: the two entries the model follows
AniHyperparameters ==
    [k \in {"batch_size", "Rcr"} |->
        IF k = "batch_size"
        THEN Hyperparameter(Lin(RInt(8)), Lin(RInt(1)), Lin(RInt(1024)), "linear", "int")
        ELSE Hyperparameter(Lin(Rat(26, 5)), Lin(RInt(1)), Lin(RInt(10)), "linear", "float")]

\* a file name: none stands for None, tmp for a name inside the temporary directory,
\* id tells generated (uuid) names apart
NoFile          == [none |-> TRUE, tmp |-> FALSE, base |-> "", id |-> 0, ext |-> ""]
File(base, ext) == [none |-> FALSE, tmp |-> FALSE, base |-> base, id |-> 0, ext |-> ext]

\* what a trained backend holds: the data it was trained on, the hyperparameter values,
\* the equilibrium molecule (kreg), the data the self-energies were fitted on and the
\* species order (ani); warm: training started from the weights of an earlier training
NoFit == [has |-> FALSE, trained |-> FALSE, warm |-> FALSE, db |-> <<>>, hp |-> <<>>,
          eq |-> 0, se |-> <<>>, so |-> {}]

HpValues(m) == [k \in DOMAIN m.hyperparameters |-> m.hyperparameters[k].value]

\* kreg.__init__ (ml_program = 'KREG_API') and ani.__init__, no file of that name on disk
NewModel(variant, file) ==
    [variant |-> variant,
     hyperparameters |-> IF variant = "kreg" THEN KregHyperparameters ELSE AniHyperparameters,
     model_file |-> IF variant = "kreg" /\ ~file.none /\ file.ext # ".npz"
                    THEN [file EXCEPT !.ext = ".npz"] ELSE file,
     fitted |-> NoFit,
     equilibrium_molecule |-> 0,
     self_energies |-> [none |-> TRUE, from |-> <<>>],
     species_order |-> {},
     datasets |-> [has |-> FALSE, db |-> <<>>],
     uuids |-> 0]

\* the events an engine call logs, all of one shape
Ev(op) == [op |-> op, db |-> <<>>, x |-> <<>>, hp0 |-> <<>>, hp |-> <<>>,
           val |-> [root |-> 0, rad |-> RInt(0)], left |-> FALSE,
           eq |-> 0, se |-> <<>>, so |-> {}, data |-> <<>>]

\* which call of train / predict the backend fails in (0: none)
Fails == {[t |-> 0, p |-> 0], [t |-> 1, p |-> 0], [t |-> 2, p |-> 0], [t |-> 0, p |-> 1]}

\* the state an engine call works on
Start(fail) == [ml |-> ml, disk |-> disk, dbs |-> dbs, log |-> <<>>, err |-> "none",
                fail |-> fail, ntrain |-> 0, npredict |-> 0,
                val |-> [root |-> 0, rad |-> RInt(0)],
                best |-> [root |-> 0, rad |-> RInt(0)], params |-> <<>>]

-----------------------------------------------------------------------------
(* The backends: the values they compute *)

\* integer distance of a hyperparameter value from the optimum of the loss landscape
HpDev(k, v) ==
    IF k = "sigma"      THEN Abs(RTrunc(RSub(v.x, RInt(2))))
    ELSE IF k = "lambda" THEN Abs(RTrunc(RSub(v.x, RInt(-35)))) \div 12
    ELSE IF k = "batch_size" THEN Abs(RTrunc(RSub(v.x, RInt(512)))) \div 256
    ELSE Abs(RTrunc(RSub(v.x, RInt(5))))

RECURSIVE SumOver(_, _)
SumOver(f, ks) == IF ks = {} THEN 0
                  ELSE LET k == CHOOSE j \in ks : TRUE IN f[k] + SumOver(f, ks \ {k})

\* the error of a trained backend's estimates
Deviation(fit) ==
    SumOver([k \in DOMAIN fit.hp |-> HpDev(k, fit.hp[k])], DOMAIN fit.hp)
    + (IF fit.eq # 0 THEN fit.eq ELSE Len(fit.se)) + (IF fit.warm THEN 1 ELSE 0)

EstimateY(fit, m) == <<RefY(m) + Deviation(fit)>>
EstimateG(fit, m) == [a \in Atoms |-> RefG(m)[a] + 2 * Deviation(fit) + 1]

\* the backend writes the estimates onto the molecules of db
WriteEstimates(d, fit, db, wy, wg) ==
    [m \in DOMAIN d |->
        IF m \in SeqSet(db)
        THEN [estimated_y |-> IF wy THEN Val(EstimateY(fit, m)) ELSE d[m].estimated_y,
              estimated_xyz_derivatives_y |->
                  IF wg THEN Val(EstimateG(fit, m)) ELSE d[m].estimated_xyz_derivatives_y]
        ELSE d[m]]

-----------------------------------------------------------------------------
(* kreg and ani: train, predict, reset *)

\* kreg.get_equilibrium_molecule: the first molecule of lowest 'y'
GetEquilibriumMolecule(db) ==
    db[CHOOSE i \in DOMAIN db :
          /\ \A j \in DOMAIN db : RefY(db[i]) <= RefY(db[j])
          /\ \A j \in 1..(i - 1) : RefY(db[j]) > RefY(db[i])]

\* kreg.train, ml_program = 'KREG_API', save_model = True
KregTrain(S, db) ==
    LET mf  == S.ml.model_file
        m1  == IF mf.none
               THEN [S.ml EXCEPT !.model_file = [File("kreg_uuid", ".npz") EXCEPT !.id = S.ml.uuids + 1],
                                 !.uuids = @ + 1]
               ELSE IF mf.ext # ".npz" THEN [S.ml EXCEPT !.model_file.ext = ".npz"]
               ELSE S.ml
        m2  == [m1 EXCEPT !.fitted = [NoFit EXCEPT !.has = TRUE]]
        S2  == [S EXCEPT !.ml = m2, !.ntrain = @ + 1]
    IN  IF db = <<>> /\ m2.equilibrium_molecule = 0
        THEN [S2 EXCEPT !.err = "IndexError",
                        !.log = Append(@, [Ev("train") EXCEPT !.db = db])]
        ELSE
        LET eq  == IF m2.equilibrium_molecule = 0 THEN GetEquilibriumMolecule(db)
                   ELSE m2.equilibrium_molecule
            m3  == [m2 EXCEPT !.equilibrium_molecule = eq]
            ev  == [Ev("train") EXCEPT !.db = db, !.eq = eq]
            fit == [NoFit EXCEPT !.has = TRUE, !.trained = TRUE, !.db = db,
                                 !.hp = HpValues(m3), !.eq = eq]
        IN  IF S.fail.t = S2.ntrain
            THEN [S2 EXCEPT !.ml = m3, !.log = Append(@, ev), !.err = "RuntimeError"]
            ELSE [S2 EXCEPT !.ml = [m3 EXCEPT !.fitted = fit], !.log = Append(@, ev),
                            !.disk = @ \cup {m3.model_file}]

\* kreg.predict, ml_program = 'KREG_API'
KregPredict(S, db, pk) ==
    LET S1 == [S EXCEPT !.npredict = @ + 1, !.log = Append(@, [Ev("predict") EXCEPT !.db = db])]
    IN  IF ~S.ml.fitted.has THEN [S1 EXCEPT !.err = "MLatomError"]
        ELSE IF S.fail.p = S1.npredict \/ ~S.ml.fitted.trained THEN [S1 EXCEPT !.err = "RuntimeError"]
        ELSE [S1 EXCEPT !.dbs = WriteEstimates(@, S.ml.fitted, db, pk.hasY, pk.hasG)]

\* ml_model.reset
MlModelReset(S) ==
    IF S.ml.model_file.none
    THEN [S EXCEPT !.err = "TypeError", !.log = Append(@, Ev("reset"))]
    ELSE [S EXCEPT !.disk = @ \ {S.ml.model_file}, !.log = Append(@, Ev("reset"))]

\* ani.data_setup: the species order and the self-energies are taken from the data only
\* when the model has none yet; an element outside the species order ends the setup
DataSetup(m, db) ==
    LET els == ElementSymbols(db)
        m1  == IF m.species_order = {} THEN [m EXCEPT !.species_order = els] ELSE m
    IN  IF m.species_order # {} /\ ~(els \subseteq m.species_order) THEN m
        ELSE [m1 EXCEPT !.self_energies = IF @.none THEN [none |-> FALSE, from |-> db] ELSE @,
                        !.datasets = [has |-> TRUE, db |-> db]]

\* ani.save
AniSave(S) ==
    LET m1 == IF S.ml.model_file.none
              THEN [S.ml EXCEPT !.model_file = [File("ani_uuid", ".pt") EXCEPT !.id = S.ml.uuids + 1],
                                !.uuids = @ + 1]
              ELSE S.ml
    IN  [S EXCEPT !.ml = m1, !.disk = @ \cup {m1.model_file}]

\* ani.train, save_model = True, use_last_model = False: set the data up, build a
\* network unless the model has one, train, save, load what was saved
AniTrain(S, db) ==
    LET S1 == [S EXCEPT !.ntrain = @ + 1]
    IN  IF db = <<>>
        THEN [S1 EXCEPT !.err = "AssertionError", !.log = Append(@, [Ev("train") EXCEPT !.db = db])]
        ELSE
        LET m1  == DataSetup(S.ml, db)
            ev  == [Ev("train") EXCEPT !.db = db, !.se = m1.self_energies.from,
                                       !.so = m1.species_order, !.data = m1.datasets.db]
            fit == [NoFit EXCEPT !.has = TRUE, !.trained = TRUE, !.warm = m1.fitted.has,
                                 !.db = m1.datasets.db, !.hp = HpValues(m1),
                                 !.se = m1.self_energies.from, !.so = m1.species_order]
            S2  == [S1 EXCEPT !.ml = m1, !.log = Append(@, ev)]
        IN  IF S.fail.t = S1.ntrain
            THEN [S2 EXCEPT !.ml.fitted = [fit EXCEPT !.trained = FALSE], !.err = "RuntimeError"]
            ELSE AniSave([S2 EXCEPT !.ml.fitted = fit])

\* ani.predict: the energies are always written under property_to_predict (default
\* 'estimated_y'), the derivatives only when a label name is given
AniPredict(S, db, pk) ==
    LET S1 == [S EXCEPT !.npredict = @ + 1, !.log = Append(@, [Ev("predict") EXCEPT !.db = db])]
    IN  IF ~(ElementSymbols(db) \subseteq S.ml.species_order) THEN [S1 EXCEPT !.err = "KeyError"]
        ELSE IF ~S.ml.fitted.has THEN [S1 EXCEPT !.err = "TypeError"]
        ELSE IF S.fail.p = S1.npredict THEN [S1 EXCEPT !.err = "RuntimeError"]
        ELSE [S1 EXCEPT !.dbs = WriteEstimates(@, S.ml.fitted, db, TRUE, pk.hasG)]

\* ani.reset
AniReset(S) ==
    [S EXCEPT !.ml.fitted = NoFit, !.log = Append(@, Ev("reset"))]

MlTrain(S, db)       == IF S.ml.variant = "kreg" THEN KregTrain(S, db) ELSE AniTrain(S, db)
MlPredict(S, db, pk) == IF S.ml.variant = "kreg" THEN KregPredict(S, db, pk) ELSE AniPredict(S, db, pk)
\* reset() and what it left behind: the event tells whether the model file still exists
MlReset(S) ==
    LET S1 == IF S.ml.variant = "kreg" THEN MlModelReset(S) ELSE AniReset(S)
    IN  [S1 EXCEPT !.log[Len(S1.log)].left = ~S1.ml.model_file.none /\ S1.ml.model_file \in S1.disk]

-----------------------------------------------------------------------------
(* Validation: holdout, cross-validation and the loss *)

\* a loss value rad^(1/root), kept exact: an RMSE is the square root of a mean square
NoLoss == [root |-> 0, rad |-> RInt(0)]
One    == [root |-> 1, rad |-> RInt(1)]

RECURSIVE RPow(_, _)
RPow(x, k) == IF k = 0 THEN RInt(1) ELSE RMul(x, RPow(x, k - 1))

LossMul(a, b) ==
    IF a.root = b.root THEN [root |-> a.root, rad |-> RMul(a.rad, b.rad)]
    ELSE IF a.root = 1 THEN [root |-> b.root, rad |-> RMul(RPow(a.rad, b.root), b.rad)]
    ELSE [root |-> a.root, rad |-> RMul(a.rad, RPow(b.rad, a.root))]
LossSqrt(a)    == [root |-> 2 * a.root, rad |-> a.rad]
\* a comparison that also holds between equal losses
LossLessOrEqual(a, b) == IF a.root = b.root THEN ~RLess(b.rad, a.rad)
                         ELSE ~RLess(RPow(b.rad, a.root), RPow(a.rad, b.root))
LossLess(a, b) == IF a.root = b.root THEN RLess(a.rad, b.rad)
                  ELSE RLess(RPow(a.rad, b.root), RPow(b.rad, a.root))

RECURSIVE SqSum(_, _)
SqSum(est, ref) ==
    IF est = <<>> THEN 0
    ELSE (est[1] - ref[1]) * (est[1] - ref[1]) + SqSum(Tail(est), Tail(ref))

\* stats.rmse
Rmse(est, ref) == [root |-> 2, rad |-> Rat(SqSum(est, ref), Len(est))]

RECURSIVE Flatten(_)
Flatten(ss) == IF ss = <<>> THEN <<>> ELSE Head(ss) \o Flatten(Tail(ss))

\* get_property_to_learn / get_xyz_derivative_property_to_learn: the label named by
\* the training keywords, None when the key is absent
GetPropertyToLearn(tk)              == tk.hasY
GetXyzDerivativePropertyToLearn(tk) == tk.hasG

\* the loss without its final square root
GeomRMSElocNoSqrt(esty, y, estg, g, tk) ==
    LET t1 == IF GetPropertyToLearn(tk) THEN LossMul(One, Rmse(esty, y)) ELSE One
    IN  IF GetXyzDerivativePropertyToLearn(tk) THEN LossMul(t1, Rmse(estg, g)) ELSE t1

\* geomRMSEloc
GeomRMSEloc(esty, y, estg, g, tk) ==
    LET t1 == IF GetPropertyToLearn(tk) THEN LossMul(One, Rmse(esty, y)) ELSE One
        t2 == IF GetXyzDerivativePropertyToLearn(tk) THEN LossMul(t1, Rmse(estg, g)) ELSE t1
    IN  IF GetPropertyToLearn(tk) /\ GetXyzDerivativePropertyToLearn(tk) THEN LossSqrt(t2) ELSE t2

\* holdout validation that resets the model before it has predicted
HoldoutResetFirst(S, sub, val, pk) ==
    LET S1 == MlTrain(S, sub)
        S2 == IF S1.err # "none" THEN S1 ELSE MlReset(S1)
    IN  IF S2.err # "none" THEN S2 ELSE MlPredict(S2, val, pk)

\* ml_model.holdout_validation
HoldoutValidation(S, sub, val, pk) ==
    LET S1 == MlTrain(S, sub)
        S2 == IF S1.err # "none" THEN S1 ELSE MlPredict(S1, val, pk)
    IN  IF S2.err # "none" THEN S2 ELSE MlReset(S2)

\* a subtraining set that keeps the held-out fold
AllFolds(splits, ii) == Flatten(splits)

\* the subtraining set of cycle ii: the molecules of all the other splits
OtherFolds(splits, ii) ==
    Flatten([jj \in DOMAIN splits |-> IF ii # jj THEN splits[jj] ELSE <<>>])

RECURSIVE CrossValidation(_, _, _, _)
\* ml_model.cross_validation, cycles ii..nsplits
CrossValidation(S, splits, ii, pk) ==
    IF ii > Len(splits) \/ S.err # "none" THEN S
    ELSE LET S1 == MlTrain(S, OtherFolds(splits, ii))
             S2 == IF S1.err # "none" THEN S1 ELSE MlPredict(S1, splits[ii], pk)
             S3 == IF S2.err # "none" THEN S2 ELSE MlReset(S2)
         IN  CrossValidation(S3, splits, ii + 1, pk)

\* ml_model.calculate_validation_loss with the default loss: run the trial, then read
\* the reference and the estimated labels of the validated molecules; S1 is the state
\* the trial returned
CalculateValidationLoss(S, task) ==
    CHOOSE R \in
      { LET db == IF task.cv THEN Flatten(task.splits) ELSE task.val
            d  == S1.dbs
            missing == \/ GetPropertyToLearn(task.tk)
                          /\ \E i \in DOMAIN db : ~d[db[i]].estimated_y.has
                       \/ GetXyzDerivativePropertyToLearn(task.tk)
                          /\ \E i \in DOMAIN db : ~d[db[i]].estimated_xyz_derivatives_y.has
        IN  IF S1.err # "none" THEN S1
            ELSE IF missing THEN [S1 EXCEPT !.err = "AttributeError"]
            ELSE LET y    == [i \in DOMAIN db |-> RefY(db[i])]
                     esty == [i \in DOMAIN db |-> d[db[i]].estimated_y.val[1]]
                     g    == Flatten([i \in DOMAIN db |-> RefG(db[i])])
                     estg == Flatten([i \in DOMAIN db |-> d[db[i]].estimated_xyz_derivatives_y.val])
                 IN  CHOOSE R1 \in
                       { [S1 EXCEPT !.val = loss, !.log = Append(@, [Ev("loss") EXCEPT !.val = loss])]
                         : loss \in {GeomRMSEloc(esty, y, estg, g, task.tk)} } : TRUE
        : S1 \in { IF task.cv THEN CrossValidation(S, task.splits, 1, task.pk)
                   ELSE HoldoutValidation(S, task.sub, task.val, task.pk) } } : TRUE

-----------------------------------------------------------------------------
(* Hyperparameter optimisation *)

MaxGrid  == 3      \* largest grid_size, and longest axis of a grid
MaxAxes  == 2      \* axes of a grid searched directly
MaxEvals == 2      \* largest maximum_evaluations
MaxOpts  == 1      \* optimize_hyperparameters calls per behaviour

RECURSIVE SetReversed(_, _, _, _)
\* an assignment loop that pairs the candidates with the names in reverse order
SetReversed(hp, names, x, ii) ==
    IF ii > Len(x) THEN hp
    ELSE LET k == names[Len(names) + 1 - ii]
         IN  SetReversed([hp EXCEPT ![k].value = CastDtype(hp[k].dtype, x[ii])], names, x, ii + 1)

RECURSIVE SetHyperparameters(_, _, _, _)
\* self.hyperparameters[hyperparameters[ii]].value = current_hyperparameters[ii], ii..
SetHyperparameters(hp, names, x, ii) ==
    IF ii > Len(x) THEN hp
    ELSE LET k == names[ii]
         IN  SetHyperparameters([hp EXCEPT ![k].value = CastDtype(hp[k].dtype, x[ii])],
                                names, x, ii + 1)

\* an objective that reports a failed trial as a loss of 1 and lets the search go on
ValidationLossSkipping(S, func, x) ==
    CHOOSE R \in
      { IF S2.err # "none" THEN [S2 EXCEPT !.err = "none", !.val = One]
        ELSE [S2 EXCEPT !.log = Append(@, [Ev("ret") EXCEPT !.val = S2.val])]
        : S2 \in { CalculateValidationLoss(
                     [S EXCEPT !.ml.hyperparameters = hp1,
                               !.log = Append(@, [Ev("set") EXCEPT
                                                     !.x = x, !.hp0 = HpValues(S.ml),
                                                     !.hp = [k \in DOMAIN hp1 |-> hp1[k].value]])],
                     func.task)
                   : hp1 \in {SetHyperparameters(S.ml.hyperparameters, func.names, x, 1)} } } : TRUE

\* the closure validation_loss of optimize_hyperparameters
ValidationLoss(S, func, x) ==
    CHOOSE R \in
      { IF S2.err # "none" THEN S2
        ELSE [S2 EXCEPT !.log = Append(@, [Ev("ret") EXCEPT !.val = S2.val])]
        : S2 \in { CalculateValidationLoss(
                     [S EXCEPT !.ml.hyperparameters = hp1,
                               !.log = Append(@, [Ev("set") EXCEPT
                                                     !.x = x, !.hp0 = HpValues(S.ml),
                                                     !.hp = [k \in DOMAIN hp1 |-> hp1[k].value]])],
                     func.task)
                   : hp1 \in {SetHyperparameters(S.ml.hyperparameters, func.names, x, 1)} } } : TRUE

RECURSIVE TableTerms(_, _, _)
TableTerms(c, x, i) ==
    IF i > Len(x) THEN RInt(0)
    ELSE LET e == RSub(x[i].x, RInt(c[i])) IN RAdd(RMul(e, e), TableTerms(c, x, i + 1))

\* a convex quadratic test loss: the squared distance from a centre, plus cross times
\* the product of the first two coordinates' distances (cross = 2 gives the square of
\* the sum of the distances, which is lowest along a whole line of points)
TableLoss(func, x) ==
    LET sq == TableTerms(func.centre, x, 1)
    IN  [root |-> 1,
         rad  |-> IF func.cross # 0 /\ Len(x) >= 2
                  THEN RAdd(sq, RMul(RInt(func.cross),
                                     RMul(RSub(x[1].x, RInt(func.centre[1])),
                                          RSub(x[2].x, RInt(func.centre[2])))))
                  ELSE sq]

\* func(params): the callable handed to optimize_grid
Func(S, func, x) ==
    IF func.kind = "table"
    THEN CHOOSE R \in
           { [S EXCEPT !.val = v, !.log = Append(@, [Ev("eval") EXCEPT !.x = x, !.val = v])]
             : v \in {TableLoss(func, x)} } : TRUE
    ELSE ValidationLoss(S, func, x)

\* other_params_left and other_params_right of optimize_grid
GridLeft(grid, kk)  == [ii \in 1..(kk - 1) |-> <<grid[ii][1]>>]
\* the axes to the right held at their first candidates
GridRightFirsts(grid, kk) == [ii \in 1..(Len(grid) - kk) |-> <<grid[kk + ii][1]>>]
GridRight(grid, kk) == SubSeq(grid, kk + 1, Len(grid))

RECURSIVE OptimizeGrid(_, _, _)
RECURSIVE ScanLast(_, _, _, _, _)
RECURSIVE ScanAxis(_, _, _, _, _, _)

\* the loop over grid[-1][1:]: a candidate replaces the best one only when strictly lower
ScanLast(S, func, other, axis, j) ==
    IF j > Len(axis) \/ S.err # "none" THEN S
    ELSE CHOOSE R \in
           { ScanLast(S2, func, other, axis, j + 1)
             : S2 \in { IF S1.err = "none" /\ LossLess(S1.val, S.best)
                        THEN [S1 EXCEPT !.best = S1.val, !.params = other \o <<axis[j]>>]
                        ELSE S1
                        : S1 \in {Func(S, func, other \o <<axis[j]>>)} } } : TRUE

\* the loop over the first multi-valued axis kk: one search per candidate, the rest of
\* the grid to its right unchanged
ScanAxis(S, func, grid, kk, j, acc) ==
    IF S.err # "none" THEN S
    ELSE IF j > Len(grid[kk])
         THEN IF ~acc.has THEN [S EXCEPT !.err = "UnboundLocalError"]
              ELSE [S EXCEPT !.best = acc.best, !.params = acc.params]
    ELSE CHOOSE R \in
           { ScanAxis(S1, func, grid, kk, j + 1,
                      IF S1.err # "none" THEN acc
                      ELSE IF ~acc.has \/ LossLess(S1.best, acc.best)
                           THEN [has |-> TRUE, best |-> S1.best, params |-> S1.params]
                      ELSE acc)
             : S1 \in { OptimizeGrid(S, func,
                            GridLeft(grid, kk) \o << <<grid[kk][j]>> >> \o GridRight(grid, kk)) } } : TRUE

\* optimize_grid(func, grid): the result is left in S.params and S.best
OptimizeGrid(S, func, grid) ==
    IF grid = <<>> THEN [S EXCEPT !.err = "IndexError"]
    ELSE
    LET n    == Len(grid)
        last == \A ii \in 1..(n - 1) : Len(grid[ii]) = 1
    IN  IF last
        THEN IF grid[n] = <<>> THEN [S EXCEPT !.err = "IndexError"]
             ELSE LET other == [ii \in 1..(n - 1) |-> grid[ii][1]]
                  IN  CHOOSE R \in
                        { IF S1.err # "none" THEN S1
                          ELSE ScanLast([S1 EXCEPT !.best = S1.val,
                                                   !.params = other \o <<grid[n][1]>>],
                                        func, other, grid[n], 2)
                          : S1 \in {Func(S, func, other \o <<grid[n][1]>>)} } : TRUE
        ELSE LET kk == CHOOSE k \in 1..(n - 1) :
                           Len(grid[k]) # 1 /\ \A ii \in 1..(k - 1) : Len(grid[ii]) = 1
             IN  ScanAxis(S, func, grid, kk, 1, [has |-> FALSE, best |-> NoLoss, params |-> <<>>])

\* np.linspace(a, b, num)
Linspace(a, b, num) ==
    [i \in 1..num |-> IF num = 1 THEN a ELSE RAdd(a, RDiv(RMul(RSub(b, a), RInt(i - 1)), num - 1))]

\* the grid_slices of one hyperparameter: np.linspace between the bounds, or
\* np.logspace between their logarithms
GridSlice(h, size) ==
    IF h.optimization_space = "linear"
    THEN [i \in 1..size |-> Lin(Linspace(h.minval.x, h.maxval.x, size)[i])]
    ELSE [i \in 1..size |-> Exp2(Linspace(h.minval.x, h.maxval.x, size)[i])]

RECURSIVE ScanPoints(_, _, _, _)
\* an external minimiser (scipy.optimize.minimize, hyperopt.fmin) evaluates the points
\* X[j..] one after the other and reports the first of the lowest loss
ScanPoints(S, func, X, j) ==
    IF j > Len(X) \/ S.err # "none" THEN S
    ELSE CHOOSE R \in
           { ScanPoints(S2, func, X, j + 1)
             : S2 \in { IF S1.err = "none" /\ (j = 1 \/ LossLess(S1.val, S.best))
                        THEN [S1 EXCEPT !.best = S1.val, !.params = X[j]]
                        ELSE S1
                        : S1 \in {Func(S, func, X[j])} } } : TRUE

\* f'{tmpdirname}/{saved_name}'
InTmp(f) == IF f.none THEN [none |-> FALSE, tmp |-> TRUE, base |-> "None", id |-> 0, ext |-> ""]
            ELSE [f EXCEPT !.tmp = TRUE]

\* ml_model.optimize_hyperparameters: the search runs with model_file inside a
\* temporary directory; the best point is set on the model and model_file put back
\* only when the search returns; the directory is deleted in either case
OptimizeHyperparameters(S, names, task, algo) ==
    LET saved == S.ml.model_file
        S0    == [S EXCEPT !.ml.model_file = InTmp(saved)]
        func  == [kind |-> "validation_loss", names |-> names, task |-> task]
    IN  CHOOSE R \in
          { LET S2 == IF S1.err # "none" \/ algo.name \notin {"scipy", "grid", "tpe"} THEN S1
                      ELSE [S1 EXCEPT !.ml.hyperparameters = SetHyperparameters(@, names, S1.params, 1)]
                S3 == IF S2.err # "none" THEN S2 ELSE [S2 EXCEPT !.ml.model_file = saved]
            IN  [S3 EXCEPT !.disk = {f \in @ : ~f.tmp}]
            : S1 \in { IF algo.name = "scipy"
                       THEN ScanPoints(S0, func,
                                <<[i \in DOMAIN names |-> S0.ml.hyperparameters[names[i]].value]>>
                                \o algo.X, 1)
                       ELSE IF algo.name = "grid"
                       THEN OptimizeGrid(S0, func,
                                [i \in DOMAIN names |->
                                    GridSlice(S0.ml.hyperparameters[names[i]], algo.grid_size)])
                       ELSE IF algo.name = "tpe" THEN ScanPoints(S0, func, algo.X, 1)
                       ELSE S0 } } : TRUE

-----------------------------------------------------------------------------
(* The callers of the engine *)

Range(a, b) == [i \in 1..(b - a + 1) |-> a + i - 1]

\* the caller's splits of the data: a head and a tail, in either role
HoldoutSplits ==
    {[sub |-> Range(1, s), val |-> Range(s + 1, NData)] : s \in 1..(NData - 1)}
    \cup {[sub |-> Range(s + 1, NData), val |-> Range(1, s)] : s \in 1..(NData - 1)}

\* k folds, the molecules dealt out in turn
Fold(k, j) == SelectSeq(Range(1, NData), LAMBDA m : (m - 1) % k = j - 1)
CVSplits   == {[j \in 1..k |-> Fold(k, j)] : k \in 2..NData}

\* training keywords (which labels are learned) and prediction keywords (which label
\* names are given)
Labels == {[tk |-> [hasY |-> TRUE,  hasG |-> FALSE], pk |-> [hasY |-> TRUE,  hasG |-> FALSE]],
           [tk |-> [hasY |-> TRUE,  hasG |-> TRUE],  pk |-> [hasY |-> TRUE,  hasG |-> TRUE]],
           [tk |-> [hasY |-> TRUE,  hasG |-> TRUE],  pk |-> [hasY |-> TRUE,  hasG |-> FALSE]],
           [tk |-> [hasY |-> FALSE, hasG |-> TRUE],  pk |-> [hasY |-> FALSE, hasG |-> TRUE]],
           [tk |-> [hasY |-> FALSE, hasG |-> FALSE], pk |-> [hasY |-> FALSE, hasG |-> FALSE]]}

Tasks ==
    {[cv |-> FALSE, splits |-> <<>>, sub |-> h.sub, val |-> h.val, tk |-> l.tk, pk |-> l.pk]
        : h \in HoldoutSplits, l \in Labels}
    \cup {[cv |-> TRUE, splits |-> c, sub |-> <<>>, val |-> <<>>, tk |-> l.tk, pk |-> l.pk]
        : c \in CVSplits, l \in Labels}

\* a neural-network potential always learns a scalar label
TaskFits(task) == ml.variant = "ani" => task.tk.hasY

NoTask == [cv |-> FALSE, splits |-> <<>>, sub |-> <<>>, val |-> <<>>,
           tk |-> [hasY |-> FALSE, hasG |-> FALSE], pk |-> [hasY |-> FALSE, hasG |-> FALSE]]
NoAlgo == [name |-> "none", grid_size |-> 0, X |-> <<>>, maximum_evaluations |-> 0]
NoFunc == [kind |-> "none", centre |-> <<>>, cross |-> 0]
\* what a call was given (call, task, names, algo, grid, func, the model_file at its
\* start) and how it ended (err, the loss val, the best point params and its loss best)
NoRes  == [call |-> "none", task |-> NoTask, names |-> <<>>, algo |-> NoAlgo,
           fail |-> [t |-> 0, p |-> 0],
           grid |-> <<>>, func |-> NoFunc, file0 |-> NoFile,
           err |-> "none", val |-> NoLoss, params |-> <<>>, best |-> NoLoss]

Ran(r, S, max) ==
    /\ nruns < max
    /\ nruns' = nruns + 1
    /\ \E T \in {S} :
          /\ ml'   = T.ml
          /\ disk' = T.disk
          /\ dbs'  = T.dbs
          /\ log'  = T.log
          /\ res'  = [r EXCEPT !.file0 = ml.model_file, !.err = T.err, !.val = T.val,
                               !.params = T.params, !.best = T.best]
    /\ UNCHANGED <<treeVars, hpVars, methVars>>

\* a caller runs one holdout or cross-validation trial
Validate(task, fail) ==
    /\ TaskFits(task)
    /\ Ran([NoRes EXCEPT !.call = "validate", !.task = task, !.fail = fail],
           CalculateValidationLoss(Start(fail), task), MaxRuns)

\* the search-variable lists: one or two hyperparameters of the model, in any order
NameLists ==
    LET ks == DOMAIN ml.hyperparameters
    IN  {<<k>> : k \in ks} \cup {s \in {<<k1, k2>> : k1 \in ks, k2 \in ks} : s[1] # s[2]}

\* the trials searched over: one validation molecule, or one molecule per fold
OptTasks ==
    {t \in Tasks : /\ t.tk.hasY /\ t.tk = t.pk
                   /\ (t.cv => Len(t.splits) = NData) /\ (~t.cv => Len(t.val) = 1)}

\* the points an external minimiser may try: every searched hyperparameter at its
\* lower bound, or at the middle of its range
PointLo(names)  == [i \in DOMAIN names |-> ml.hyperparameters[names[i]].minval]
PointMid(names) == [i \in DOMAIN names |-> GridSlice(ml.hyperparameters[names[i]], 3)[2]]

Algos(names) ==
    {[NoAlgo EXCEPT !.name = "grid", !.grid_size = g, !.maximum_evaluations = e] :
        g \in 1..MaxGrid, e \in 1..MaxEvals}
    \cup {[NoAlgo EXCEPT !.name = "scipy", !.X = X, !.maximum_evaluations = Len(X) + 1] :
             X \in {<<>>, <<PointMid(names)>>}}
    \cup {[NoAlgo EXCEPT !.name = "tpe", !.X = X, !.maximum_evaluations = Len(X)] :
             X \in UNION {[1..n -> {PointLo(names), PointMid(names)}] : n \in 1..MaxEvals}}
    \cup {[NoAlgo EXCEPT !.name = "random", !.maximum_evaluations = e] : e \in 1..MaxEvals}

\* a caller optimises hyperparameters
Optimize(names, task, algo, fail) ==
    /\ TaskFits(task)
    /\ Ran([NoRes EXCEPT !.call = "optimize", !.task = task, !.names = names, !.algo = algo,
                         !.fail = fail],
           OptimizeHyperparameters(Start(fail), names, task, algo), MaxOpts)

\* the grids searched directly: up to MaxAxes axes of 1..MaxGrid candidates 0, 1, ..
Axes  == {[i \in 1..n |-> Lin(RInt(i - 1))] : n \in 1..MaxGrid}
Grids == UNION {[1..n -> Axes] : n \in 1..MaxAxes}
TableFuncs(n) ==
    {[kind |-> "table", centre |-> c, cross |-> b] : c \in [1..n -> 0..(MaxGrid - 1)], b \in {0, 1, 2}}

\* a caller searches a grid with a test loss
GridSearch(func, grid) ==
    Ran([NoRes EXCEPT !.call = "grid", !.grid = grid, !.func = func],
        OptimizeGrid(Start([t |-> 0, p |-> 0]), func, grid), MaxRuns)

-----------------------------------------------------------------------------
(* hyperparameter and hyperparameters (the HyperparameterSet)                *)
(* An object is its identity: the index of its fields in objs (a             *)
(* hyperparameter) or of its elements in lists (a list). A Python value is a *)
(* type tag t and a payload v: the number itself, or the identity of a list. *)

MaxOps == 3        \* operations on the hyperparameter sets per behaviour

PyNone     == [t |-> "NoneType", v |-> RInt(0)]
PyTrue     == [t |-> "bool", v |-> RInt(1)]
PyFalse    == [t |-> "bool", v |-> RInt(0)]
PyInt(n)   == [t |-> "int", v |-> RInt(n)]
PyFloat(r) == [t |-> "float", v |-> r]
PyList(id) == [t |-> "list", v |-> RInt(id)]

\* isinstance(value, dtype): bool is a subclass of int
IsInstance(val, dtype) == val.t = dtype \/ (val.t = "bool" /\ dtype = "int")

\* self._cast_dtype(value), which is dtype(value): int(), float(), bool() and list()
\* of a value; ls are the list objects
CastValue(dtype, val, ls) ==
    LET number == val.t \in {"bool", "int", "float"}
        bad    == [err |-> "TypeError", val |-> val]
    IN  IF dtype = "int"
        THEN IF number THEN [err |-> "none", val |-> PyInt(RTrunc(val.v))] ELSE bad
        ELSE IF dtype = "float"
        THEN IF number THEN [err |-> "none", val |-> PyFloat(val.v)] ELSE bad
        ELSE IF dtype = "bool"
        THEN [err |-> "none",
              val |-> IF \/ number /\ val.v # RInt(0)
                         \/ val.t = "list" /\ ls[val.v.n] # <<>>
                      THEN PyTrue ELSE PyFalse]
        ELSE bad

\* hyperparameter.__setattr__ for key 'value': the value is kept when it is an instance
\* of dtype (or there is no dtype), and cast otherwise
HpSetValue(h, val, ls) ==
    IF h.dtype = "none" \/ IsInstance(val, h.dtype)
    THEN [err |-> "none", h |-> [h EXCEPT !.value = val]]
    ELSE LET c == CastValue(h.dtype, val, ls)
         IN  [err |-> c.err, h |-> IF c.err = "none" THEN [h EXCEPT !.value = c.val] ELSE h]

\* hyperparameter.__setattr__ for key 'dtype': the value is left as it is
HpSetDtype(h, dtype) == [h EXCEPT !.dtype = dtype]

\* the keyword arguments of hyperparameter(...): dtype "none" and minval/maxval PyNone
\* are the defaults, choices is the identity of a list
HpArgs(value, dtype, name, space, minval, maxval, choices) ==
    [value |-> value, dtype |-> dtype, name |-> name, optimization_space |-> space,
     minval |-> minval, maxval |-> maxval, choices |-> choices]

\* the list object that is the default of the argument choices of hyperparameter.__init__
DefaultChoices == 1

\* hyperparameter.__init__: dtype is the one given, else the type of the value, else None
HpInit(args, ls) ==
    LET dtype == IF args.dtype # "none" THEN args.dtype
                 ELSE IF args.value = PyNone THEN "none" ELSE args.value.t
    IN  HpSetValue([name |-> args.name, dtype |-> dtype, value |-> PyNone,
                    optimization_space |-> args.optimization_space,
                    minval |-> args.minval, maxval |-> args.maxval,
                    choices |-> args.choices],
                   args.value, ls)

\* hyperparameter.update: every field of the other object replaces the one of self
HpUpdate(h, new) == [f \in DOMAIN h |-> IF f \in DOMAIN new THEN new[f] ELSE h[f]]

\* hyperparameter.copy: hyperparameter(**self.__dict__)
HpCopy(h, ls) ==
    HpInit(HpArgs(h.value, h.dtype, h.name, h.optimization_space, h.minval, h.maxval, h.choices), ls)

\* a hyperparameters object: the keys of data in order and the object under each key;
\* isdict is false once data has been replaced by something that is not a mapping
NoSet    == [exists |-> FALSE, isdict |-> TRUE, keys |-> <<>>, obj |-> <<>>]
EmptySet == [NoSet EXCEPT !.exists = TRUE]

Index(q, k)      == CHOOSE i \in DOMAIN q : q[i] = k
ObjOf(st, key)   == st.obj[Index(st.keys, key)]

\* what an operation is given as a value: a plain value or a hyperparameter object
Plain(val) == [isHp |-> FALSE, val |-> val, ref |-> 0]
Ref(id)    == [isHp |-> TRUE, val |-> PyNone, ref |-> id]

\* the state the operations work on
\* (touched: the objects whose value the operation has assigned so far)
HpState == [objs |-> objs, lists |-> lists, sets |-> sets, err |-> "none", touched |-> {}]

\* hyperparameters.__setitem__
SetItem(H, s, key, x) ==
    LET st == H.sets[s]
    IN  IF ~st.isdict THEN [H EXCEPT !.err = "TypeError"]
        ELSE IF x.isHp
        THEN IF key \in SeqSet(st.keys)
             THEN [H EXCEPT !.objs[ObjOf(st, key)] = HpUpdate(@, H.objs[x.ref]),
                            !.touched = @ \cup {ObjOf(st, key)}]
             ELSE [H EXCEPT !.sets[s].keys = Append(@, key), !.sets[s].obj = Append(@, x.ref)]
        ELSE IF key \in SeqSet(st.keys)
        THEN LET r == HpSetValue(H.objs[ObjOf(st, key)], x.val, H.lists)
             IN  [H EXCEPT !.objs[ObjOf(st, key)] = r.h, !.err = r.err,
                           !.touched = IF r.err = "none" THEN @ \cup {ObjOf(st, key)} ELSE @]
        ELSE LET r == HpInit(HpArgs(x.val, "none", key, "linear", PyNone, PyNone, DefaultChoices),
                             H.lists)
             IN  [H EXCEPT !.objs = Append(@, r.h),
                           !.sets[s].keys = Append(@, key),
                           !.sets[s].obj = Append(@, Len(H.objs) + 1),
                           !.touched = @ \cup {Len(H.objs) + 1}]

\* hyperparameters.__setattr__: 'data', the names already in __dict__ (which holds
\* only data) and the names that start with '__' are attributes of the object itself
SetAttr(H, s, key, x) ==
    IF key = "data"
    THEN [H EXCEPT !.sets[s].isdict = FALSE, !.sets[s].keys = <<>>, !.sets[s].obj = <<>>]
    ELSE SetItem(H, s, key, x)

RECURSIVE UpdateItems(_, _, _, _)
\* UserDict.update(other): self[key] = other[key] for the keys of other in order, from
\* the i-th on
UpdateItems(H, s, o, i) ==
    IF H.err # "none" \/ i > Len(H.sets[o].keys) THEN H
    ELSE UpdateItems(SetItem(H, s, H.sets[o].keys[i], Ref(H.sets[o].obj[i])), s, o, i + 1)

SetUpdate(H, s, o) ==
    IF ~H.sets[o].isdict \/ ~H.sets[s].isdict THEN [H EXCEPT !.err = "TypeError"]
    ELSE UpdateItems(H, s, o, 1)

RECURSIVE CopyItems(_, _, _, _, _)
\* {key: self[key].copy() for key in keys} handed to hyperparameters(...): the copies of
\* the keys from the i-th on are made and stored under their keys in the new object
CopyItems(H, s, c, K, i) ==
    IF H.err # "none" \/ i > Len(K) THEN H
    ELSE IF K[i] \notin SeqSet(H.sets[s].keys) THEN [H EXCEPT !.err = "KeyError"]
    ELSE LET r == HpCopy(H.objs[ObjOf(H.sets[s], K[i])], H.lists)
         IN  IF r.err # "none" THEN [H EXCEPT !.err = r.err]
             ELSE CopyItems([H EXCEPT !.objs = Append(@, r.h),
                                      !.sets[c].keys = Append(@, K[i]),
                                      !.sets[c].obj = Append(@, Len(H.objs) + 1),
                                      !.touched = @ \cup {Len(H.objs) + 1}],
                            s, c, K, i + 1)

\* c = s.copy(K): c is bound only when copy returns
SetCopy(H, s, c, K) ==
    IF ~H.sets[s].isdict THEN [H EXCEPT !.err = "TypeError"]
    ELSE LET R == CopyItems([H EXCEPT !.sets[c] = EmptySet], s, c, K, 1)
         IN  IF R.err # "none" THEN [H EXCEPT !.err = R.err] ELSE R

-----------------------------------------------------------------------------
(* The callers of the hyperparameter sets *)

HpKeys   == <<"a", "data">>
SetNames == {"hs", "c"}

\* the values a caller writes: None, True, 2.5 and (payload 0) a new list [1]
Literals == {PyNone, PyTrue, PyFloat(Rat(5, 2)), PyList(0)}

\* the value of a literal: a list literal makes a new list object
Eval(H, lit) ==
    IF lit.t = "list"
    THEN [H |-> [H EXCEPT !.lists = Append(@, <<PyInt(1)>>)], val |-> PyList(Len(H.lists) + 1)]
    ELSE [H |-> H, val |-> lit]

\* the hyperparameter(...) expressions a caller writes: hyperparameter(),
\* hyperparameter(value=2.5), hyperparameter(value=[1], choices=[1]),
\* hyperparameter(dtype=int) and hyperparameter(value=2.5, dtype=int, minval=1,
\* maxval=4, optimization_space='log')
Ctors ==
    {[value |-> PyNone, dtype |-> "none", bounded |-> FALSE, choices |-> FALSE],
     [value |-> PyFloat(Rat(5, 2)), dtype |-> "none", bounded |-> FALSE, choices |-> FALSE],
     [value |-> PyList(0), dtype |-> "none", bounded |-> FALSE, choices |-> TRUE],
     [value |-> PyNone, dtype |-> "int", bounded |-> FALSE, choices |-> FALSE],
     [value |-> PyFloat(Rat(5, 2)), dtype |-> "int", bounded |-> TRUE, choices |-> FALSE]}

\* hyperparameter(...): the new object is the last of objs when err is "none"
Construct(H, ctor) ==
    LET e  == Eval(H, ctor.value)
        H1 == IF ctor.choices THEN [e.H EXCEPT !.lists = Append(@, <<PyInt(1)>>)] ELSE e.H
        r  == HpInit(HpArgs(e.val, ctor.dtype, "", IF ctor.bounded THEN "log" ELSE "linear",
                            IF ctor.bounded THEN PyInt(1) ELSE PyNone,
                            IF ctor.bounded THEN PyInt(4) ELSE PyNone,
                            IF ctor.choices THEN Len(H1.lists) ELSE DefaultChoices),
                     H1.lists)
    IN  IF r.err # "none" THEN [H1 EXCEPT !.err = r.err]
        ELSE [H1 EXCEPT !.objs = Append(@, r.h), !.touched = @ \cup {Len(H1.objs) + 1}]

NoOp == [op |-> "init", s |-> "hs", o |-> "hs", key |-> "a", K |-> <<>>, x |-> PyNone,
         err |-> "none", touched |-> {}]

\* an operation op has ended in state R
HpDone(op, R) ==
    /\ nops < MaxOps
    /\ nops' = nops + 1
    /\ \E T \in {R} :
          /\ objs'   = T.objs
          /\ lists'  = T.lists
          /\ sets'   = T.sets
          /\ hpLast' = [op EXCEPT !.err = T.err, !.touched = T.touched]
    /\ UNCHANGED <<treeVars, valVars, methVars>>

Present(s, key) == sets[s].exists /\ sets[s].isdict /\ key \in SeqSet(sets[s].keys)

\* s[key] = lit
AssignItem(s, key, lit) ==
    /\ sets[s].exists
    /\ HpDone([NoOp EXCEPT !.op = "setitem", !.s = s, !.key = key, !.x = lit],
              CHOOSE R \in {SetItem(e.H, s, key, Plain(e.val)) : e \in {Eval(HpState, lit)}} : TRUE)

\* s[key] = hyperparameter(...)
AssignItemHp(s, key, ctor) ==
    /\ sets[s].exists
    /\ HpDone([NoOp EXCEPT !.op = "setitemhp", !.s = s, !.key = key, !.x = ctor.value],
              CHOOSE R \in {IF H1.err # "none" THEN H1 ELSE SetItem(H1, s, key, Ref(Len(H1.objs)))
                            : H1 \in {Construct(HpState, ctor)}} : TRUE)

\* s.key = lit
AssignAttr(s, key, lit) ==
    /\ sets[s].exists
    /\ HpDone([NoOp EXCEPT !.op = "setattr", !.s = s, !.key = key, !.x = lit],
              CHOOSE R \in {SetAttr(e.H, s, key, Plain(e.val)) : e \in {Eval(HpState, lit)}} : TRUE)

\* s.update(o)
Update(s, o) ==
    /\ s # o /\ sets[s].exists /\ sets[o].exists
    /\ HpDone([NoOp EXCEPT !.op = "update", !.s = s, !.o = o], SetUpdate(HpState, s, o))

\* c = hs.copy(K)
Copy(K) ==
    HpDone([NoOp EXCEPT !.op = "copy", !.s = "c", !.o = "hs", !.K = K],
           SetCopy(HpState, "hs", "c", K))

\* s[key].value = lit
AssignValue(s, key, lit) ==
    /\ Present(s, key)
    /\ HpDone([NoOp EXCEPT !.op = "value", !.s = s, !.key = key, !.x = lit],
              CHOOSE R \in
                {LET r == HpSetValue(e.H.objs[ObjOf(sets[s], key)], e.val, e.H.lists)
                 IN  [e.H EXCEPT !.objs[ObjOf(sets[s], key)] = r.h, !.err = r.err,
                                 !.touched = IF r.err = "none" THEN {ObjOf(sets[s], key)} ELSE {}]
                 : e \in {Eval(HpState, lit)}} : TRUE)

\* s[key].dtype = dtype
AssignDtype(s, key, dtype) ==
    /\ Present(s, key)
    /\ HpDone([NoOp EXCEPT !.op = "dtype", !.s = s, !.key = key],
              [HpState EXCEPT !.objs[ObjOf(sets[s], key)] = HpSetDtype(@, dtype)])

\* s[key].value.append(0)
AppendValue(s, key) ==
    /\ Present(s, key)
    /\ HpDone([NoOp EXCEPT !.op = "append", !.s = s, !.key = key],
              LET val == objs[ObjOf(sets[s], key)].value
              IN  IF val.t # "list" THEN [HpState EXCEPT !.err = "AttributeError"]
                  ELSE [HpState EXCEPT !.lists[val.v.n] = Append(@, PyInt(0))])

\* s[key].choices.append(0)
AppendChoices(s, key) ==
    /\ Present(s, key)
    /\ HpDone([NoOp EXCEPT !.op = "choices", !.s = s, !.key = key],
              [HpState EXCEPT !.lists[objs[ObjOf(sets[s], key)].choices] = Append(@, PyInt(0))])

\* the subsequences of a sequence of keys
SubSeqs(q) ==
    {[i \in 1..Cardinality(I) |->
         q[CHOOSE j \in I : Cardinality({k \in I : k < j}) = i - 1]] : I \in SUBSET DOMAIN q}

-----------------------------------------------------------------------------
(* Deterministic methods: resolution of the backend program, and the pre-trained *)
(* ANI methods. A method name is the sequence of its characters.                 *)

MaxMeth == 2       \* calls on methods objects per behaviour

\* str.casefold() on the characters that occur in the names
UpperChars == <<"A", "D", "I", "M", "O", "P", "Q", "X", "Y">>
LowerChars == <<"a", "d", "i", "m", "o", "p", "q", "x", "y">>
CasefoldChar(ch) ==
    IF \E i \in DOMAIN UpperChars : UpperChars[i] = ch
    THEN LowerChars[CHOOSE i \in DOMAIN UpperChars : UpperChars[i] = ch]
    ELSE ch
Casefold(name) == [i \in DOMAIN name |-> CasefoldChar(name[i])]

\* methods.methods_map, in its order, with one or two of the names of each program:
\* AIQM1 is registered for aiqm1 and sparrow, AM1 for mndo and sparrow, OM1 for mndo
\* only, PM6 for sparrow only, D4 for dftd4; gaussian has no names
MethodsMap ==
    <<[program |-> "aiqm1",    names |-> << <<"A", "I", "Q", "M", "1">> >>],
      [program |-> "mndo",     names |-> << <<"O", "M", "1">>, <<"A", "M", "1">> >>],
      [program |-> "sparrow",  names |-> << <<"A", "M", "1">>, <<"P", "M", "6">>,
                                            <<"A", "I", "Q", "M", "1">> >>],
      [program |-> "dftd4",    names |-> << <<"D", "4">> >>],
      [program |-> "gaussian", names |-> <<>>]>>

Programs == {MethodsMap[i].program : i \in DOMAIN MethodsMap}

\* [mm.casefold() for mm in self.methods_map[program]]
CasefoldedNames(program) ==
    LET e == MethodsMap[CHOOSE i \in DOMAIN MethodsMap : MethodsMap[i].program = program]
    IN  {Casefold(e.names[j]) : j \in DOMAIN e.names}

\* the environment: the variables mndobin and sparrowbin ("unset", "set", or the
\* "default" path that methods.__init__ writes), whether a program is installed at that
\* default path, and the programs whose interface cannot be constructed
Envs ==
    [mndobin : {"unset", "set"}, sparrowbin : {"unset", "set"},
     installed : BOOLEAN, broken : SUBSET {"mndo", "sparrow"}]

\* the constructor of the interface of a program: it raises for the programs of
\* E.broken, and returns the backend otherwise
InterfaceNew(R, program) ==
    IF program \in R.env.broken THEN [R EXCEPT !.err = "InterfaceError"]
    ELSE [R EXCEPT !.obj.interface = program]

NoMethods == [exists |-> FALSE, method |-> <<>>, program |-> "None", interface |-> "none"]

\* methods.__init__(method, program): the object under construction, the environment
\* and the exception raised
MethodsInit(E, method, program) ==
    LET R0 == [env |-> E, err |-> "none",
               obj |-> [exists |-> TRUE, method |-> method, program |-> program,
                        interface |-> "none"]]
        cf == Casefold(method)
        inMndo    == cf \in CasefoldedNames("mndo")
        inSparrow == cf \in CasefoldedNames("sparrow")
    IN  IF program # "None"
        THEN IF program \in Programs THEN InterfaceNew(R0, program) ELSE R0
        ELSE IF inMndo \/ method \in CasefoldedNames("sparrow")
        THEN IF inMndo /\ E.mndobin # "unset" THEN InterfaceNew(R0, "mndo")
             ELSE IF inSparrow /\ E.sparrowbin # "unset" THEN InterfaceNew(R0, "sparrow")
             ELSE LET R1 == IF E.mndobin = "unset" THEN [R0 EXCEPT !.env.mndobin = "default"]
                            ELSE R0
                  IN  IF inMndo THEN InterfaceNew(R1, "mndo")
                      ELSE [R1 EXCEPT !.err = "ValueError"]
        ELSE IF \E i \in DOMAIN MethodsMap : cf \in CasefoldedNames(MethodsMap[i].program)
        THEN InterfaceNew(R0, MethodsMap[CHOOSE i \in DOMAIN MethodsMap :
                                  /\ cf \in CasefoldedNames(MethodsMap[i].program)
                                  /\ \A j \in 1..(i - 1) :
                                       cf \notin CasefoldedNames(MethodsMap[j].program)].program)
        ELSE [R0 EXCEPT !.err = "ValueError"]

\* methods.predict: forwards to the interface, when there is one
MethodsPredictErr(obj) == IF obj.interface = "none" THEN "ValueError" ELSE "none"

\* the classes that define or inherit a method train, and what calling train on an
\* object of a class without training data for it does
Classes == {"model", "methods", "model_tree_node", "ml_model"}
HasTrain(class) == class = "ml_model"
TrainErr(class) == IF ~HasTrain(class) THEN "AttributeError" ELSE "NotImplementedError"

\* ani_methods.model_setup: atomic_number_available
AniMethodNames == {"ANI-1ccx", "ANI-2x"}
AtomicNumberAvailable(method) ==
    IF method = "ANI-2x" THEN {1, 6, 7, 8, 9, 16, 17} ELSE {1, 6, 7, 8}

\* ani_methods.atomic_energies
AtomicEnergies == [m \in {"ANI-1ccx"} |-> {1, 6, 7, 8}]

\* the caller's molecules, as the atomic numbers of their atoms: H, H2O, HF and Ne
AniMols == << <<1>>, <<1, 1, 8>>, <<1, 9>>, <<10>> >>

\* ani_methods.predict_for_molecule on molecule m in call number n: the energies after
\* the call and the exception raised
PredictForMolecule(en, method, m, n) ==
    LET atoms == AniMols[m]
    IN  IF \E i \in DOMAIN atoms : atoms[i] \notin AtomicNumberAvailable(method)
        THEN [energy |-> en, err |-> "none"]
        ELSE IF Len(atoms) = 1
        THEN IF method \in DOMAIN AtomicEnergies /\ atoms[1] \in AtomicEnergies[method]
             THEN [energy |-> [en EXCEPT ![m] = [has |-> TRUE, call |-> n]], err |-> "none"]
             ELSE [energy |-> en, err |-> "KeyError"]
        ELSE [energy |-> [en EXCEPT ![m] = [has |-> TRUE, call |-> n]], err |-> "none"]

-----------------------------------------------------------------------------
(* The callers of the methods *)

\* the method names a caller writes: every registered name as registered and in lower
\* case, and a name that is not registered
MethodNames ==
    UNION {UNION {{MethodsMap[i].names[j], Casefold(MethodsMap[i].names[j])} :
                     j \in DOMAIN MethodsMap[i].names} : i \in DOMAIN MethodsMap}
        \cup {<<"X", "Y">>, <<"x", "y">>}

NoMCall == [op |-> "none", method |-> <<>>, program |-> "None", class |-> "model",
            ani |-> "ANI-1ccx", mol |-> 1, env0 |-> [mndobin |-> "unset", sparrowbin |-> "unset",
                                                      installed |-> FALSE, broken |-> {}],
            err |-> "none", interface |-> "none"]

MCalled(call) ==
    /\ nmeth < MaxMeth
    /\ nmeth' = nmeth + 1
    /\ mPrev' = mLast
    /\ mLast' = [call EXCEPT !.env0 = env]
    /\ UNCHANGED <<treeVars, valVars, hpVars, run, afile, ntrain>>

\* m = methods(method=method, program=program)
NewMethods(method, program) ==
    \E R \in {MethodsInit(env, method, program)} :
        /\ MCalled([NoMCall EXCEPT !.op = "new", !.method = method, !.program = program,
                                   !.err = R.err, !.interface = R.obj.interface])
        /\ env'  = R.env
        /\ meth' = IF R.err = "none" THEN R.obj ELSE meth
        /\ UNCHANGED energy

\* m.predict(molecule=...)
MethodsPredict ==
    /\ meth.exists
    /\ MCalled([NoMCall EXCEPT !.op = "predict", !.method = meth.method,
                               !.program = meth.program, !.interface = meth.interface,
                               !.err = MethodsPredictErr(meth)])
    /\ UNCHANGED <<env, meth, energy>>

\* x.train(...) on an object x of a class
Train(class) ==
    /\ MCalled([NoMCall EXCEPT !.op = "train", !.class = class, !.err = TrainErr(class)])
    /\ UNCHANGED <<env, meth, energy>>

\* ani_methods(method).predict(molecule=m)
AniMethodsPredict(method, m) ==
    \E R \in {PredictForMolecule(energy, method, m, nmeth + 1)} :
        /\ MCalled([NoMCall EXCEPT !.op = "ani_predict", !.ani = method, !.mol = m,
                                   !.err = R.err])
        /\ energy' = R.energy
        /\ UNCHANGED <<env, meth>>

-----------------------------------------------------------------------------
(* ani.train, epoch by epoch: validation, checkpoints, learning-rate schedule *)

MaxTrain  == 2     \* trainings per behaviour
MaxEpochs == 3     \* validated epochs per training (max_epochs - 1)
MaxRmse   == 2     \* validation RMSEs are 1..MaxRmse

\* weights are named by the training that produced them and the number of epochs
\* trained; NoWeights stands for a model file that does not exist
NoWeights == [run |-> 0, epoch |-> 0]

\* ReduceLROnPlateau.is_better with threshold 0; best = 0 stands for the initial inf
IsBetter(r, best) == best = 0 \/ r < best

\* ReduceLROnPlateau.step(r) on [best, bad, reductions] with the given patience
SchedulerStep(T, r, patience) ==
    IF IsBetter(r, T.best) THEN [T EXCEPT !.best = r, !.bad = 0]
    ELSE IF T.bad + 1 > patience THEN [T EXCEPT !.bad = 0, !.reductions = @ + 1]
    ELSE [T EXCEPT !.bad = @ + 1]

\* the arguments of a training: the RMSE each validation will find, the flags, and the
\* schedule (lr_reduce_patience; the number of reductions after which the learning
\* rate is below early_stopping_learning_rate)
TrainArgs ==
    [rs : UNION {[1..n -> 1..MaxRmse] : n \in 0..MaxEpochs},
     save_model : BOOLEAN, use_last_model : BOOLEAN, save_every_epoch : BOOLEAN,
     patience : {0, 1}, stop_after : {1, 2}]

RECURSIVE Epochs(_, _, _)
\* the loop of ani.train from iteration i: validate, stop early, save, step, train
Epochs(T, a, i) ==
    IF i > Len(a.rs) THEN T
    ELSE LET r  == a.rs[i]
             T1 == [T EXCEPT !.validated = Append(@, [w |-> T.w, rmse |-> r])]
         IN  IF T.reductions >= a.stop_after THEN T1
             ELSE LET T2 == IF (IsBetter(r, T.best) \/ a.save_every_epoch) /\ a.save_model
                            THEN [T1 EXCEPT !.file = T.w] ELSE T1
                      T3 == SchedulerStep(T2, r, a.patience)
                  IN  Epochs([T3 EXCEPT !.w.epoch = @ + 1], a, i + 1)

\* m = ani(model_file=f); m.train(...) as training number k: the constructor loads the
\* file when it exists, the loop runs, and the file is loaded at the end unless the
\* last weights are to be kept
AniTrainEpochs(file, a, k) ==
    LET T0 == [w |-> IF file = NoWeights THEN [run |-> k, epoch |-> 0] ELSE file,
               best |-> 0, bad |-> 0, reductions |-> 0, file |-> file, validated |-> <<>>]
    IN  CHOOSE R \in {[op |-> "train", args |-> a, validated |-> T.validated, file |-> T.file,
                       err |-> IF a.save_model /\ ~a.use_last_model /\ T.file = NoWeights
                               THEN "FileNotFoundError" ELSE "none",
                       active |-> IF a.save_model /\ ~a.use_last_model /\ T.file # NoWeights
                                  THEN T.file ELSE T.w] :
                         T \in {Epochs(T0, a, 1)}} : TRUE

NoRun == [op |-> "none", args |-> [rs |-> <<>>, save_model |-> FALSE, use_last_model |-> FALSE,
                                   save_every_epoch |-> FALSE, patience |-> 0, stop_after |-> 1],
          validated |-> <<>>, file |-> NoWeights, err |-> "none", active |-> NoWeights]

\* a caller trains a new ani object on the model file
AniTrainRun(a) ==
    \E R \in {AniTrainEpochs(afile, a, ntrain + 1)} :
        /\ ntrain < MaxTrain
        /\ ntrain' = ntrain + 1
        /\ run' = R
        /\ afile' = R.file
        /\ UNCHANGED <<treeVars, valVars, hpVars, env, meth, mLast, mPrev, energy, nmeth>>

\* the model file is removed
RemoveFile ==
    /\ afile # NoWeights
    /\ afile' = NoWeights
    /\ UNCHANGED <<run, ntrain>>
    /\ UNCHANGED <<treeVars, valVars, hpVars, env, meth, mLast, mPrev, energy, nmeth>>

-----------------------------------------------------------------------------
(* Specifications *)

TreeIdle ==
    /\ tree = TreeLeaf
    /\ mols = [m \in Mols |-> FreshMolecule(DOMAIN TreeLeaf)]
    /\ lastCall = NoCall /\ lastErr = "none" /\ repeated = FALSE
    /\ evals = <<>>
    /\ before = [m \in Mols |-> FreshMolecule(DOMAIN TreeLeaf)]
    /\ ncalls = 0
    /\ silent = {} /\ results = NoResults

ValIdle ==
    /\ ml = NewModel("kreg", NoFile) /\ disk = {} /\ dbs = FreshData
    /\ log = <<>> /\ res = NoRes /\ nruns = 0

HpIdle ==
    /\ objs = <<>> /\ lists = << <<>> >>
    /\ sets = [hs |-> EmptySet, c |-> NoSet]
    /\ hpLast = NoOp /\ nops = 0

MethIdle ==
    /\ run = NoRun /\ afile = NoWeights /\ ntrain = 0
    /\ env = NoMCall.env0 /\ meth = NoMethods
    /\ mLast = NoMCall /\ mPrev = NoMCall
    /\ energy = [m \in DOMAIN AniMols |-> [has |-> FALSE, call |-> 0]]
    /\ nmeth = 0

\* predict on trees and plain models
InitTree ==
    /\ tree \in Trees
    /\ mols = [m \in Mols |-> FreshMolecule(DOMAIN tree)]
    /\ lastCall = NoCall /\ lastErr = "none" /\ repeated = FALSE
    /\ evals = <<>>
    /\ before = mols
    /\ ncalls = 0
    /\ silent = {} /\ results = NoResults
    /\ ValIdle /\ HpIdle /\ MethIdle

NextTree ==
    \/ \E x \in DOMAIN tree, kw \in Kwargs : TreePredict(x, kw)
    \/ \E kw \in Kwargs : PlainPredict(kw)

SpecTree == InitTree /\ [][NextTree]_vars

\* trees and plain models some of which return without writing, under predict and
\* under the ASE calculator
SilentPairs == {<<0, 1>>, <<1, 1>>, <<2, 1>>}

InitLeaf ==
    /\ tree \in {TreeFlat("sum"), TreeLeaf}
    /\ mols = [m \in Mols |-> FreshMolecule(DOMAIN tree)]
    /\ lastCall = NoCall /\ lastErr = "none" /\ repeated = FALSE
    /\ evals = <<>>
    /\ before = mols
    /\ ncalls = 0
    /\ silent \in SUBSET SilentPairs /\ results = NoResults
    /\ ValIdle /\ HpIdle /\ MethIdle

NextLeaf ==
    \/ \E x \in DOMAIN tree, kw \in Kwargs : TreePredict(x, kw)
    \/ \E kw \in Kwargs : PlainPredict(kw)
    \/ \E x \in {0} \cup {y \in DOMAIN tree : IsRoot(tree, y)}, m \in Mols : AseCalculate(x, m)

SpecLeaf == InitLeaf /\ [][NextLeaf]_vars

\* construction of model trees, node by node or from a dictionary
InitBuild ==
    /\ tree = NoTree
    /\ mols = [m \in Mols |-> FreshMolecule(DOMAIN TreeLeaf)]
    /\ lastCall = NoCall /\ lastErr = "none" /\ repeated = FALSE
    /\ evals = <<>>
    /\ before = mols
    /\ ncalls = 0
    /\ silent = {} /\ results = NoResults
    /\ ValIdle /\ HpIdle /\ MethIdle

NextBuild ==
    \/ \E par \in {0} \cup DOMAIN tree, op \in {"predict", "sum"}, hasModel \in BOOLEAN :
          \/ NewNode(par, TRUE, <<>>, op, hasModel)
          \/ \E ch \in {<<>>} \cup {<<c>> : c \in DOMAIN tree}
                       \cup {<<c, e>> : c \in DOMAIN tree, e \in DOMAIN tree} :
                NewNode(par, FALSE, ch, op, hasModel)
    \/ \E d \in Dicts : Load(d)

SpecBuild == InitBuild /\ [][NextBuild]_vars

\* the validation engine on a kreg or an ani model, with or without a file name
InitVal ==
    /\ ml \in {NewModel(v, f) : v \in {"kreg", "ani"}, f \in {NoFile, File("m", "")}}
    /\ disk = {} /\ dbs = FreshData
    /\ log = <<>> /\ res = NoRes /\ nruns = 0
    /\ TreeIdle /\ HpIdle /\ MethIdle

NextVal ==
    \/ \E task \in Tasks, fail \in Fails : Validate(task, fail)

SpecVal == InitVal /\ [][NextVal]_vars

\* hyperparameter optimisation on a kreg or an ani model
NextOpt ==
    \/ \E names \in NameLists, task \in OptTasks, fail \in Fails :
          \E algo \in Algos(names) : Optimize(names, task, algo, fail)

SpecOpt == InitVal /\ [][NextOpt]_vars

\* optimize_grid on test losses
InitGrid == TreeIdle /\ ValIdle /\ HpIdle /\ MethIdle

NextGrid ==
    \/ \E grid \in Grids : \E func \in TableFuncs(Len(grid)) : GridSearch(func, grid)

SpecGrid == InitGrid /\ [][NextGrid]_vars

\* hs = hyperparameters({'a': x}) for a literal or a hyperparameter(...) expression x
\* that can be constructed, c not yet bound
InitHp ==
    /\ \E H \in {SetItem(e.H, "hs", "a", Plain(e.val)) :
                     e \in {Eval([objs |-> <<>>, lists |-> << <<>> >>,
                                   sets |-> [hs |-> EmptySet, c |-> NoSet],
                                   err |-> "none", touched |-> {}], lit) : lit \in Literals}}
                  \cup {SetItem(H1, "hs", "a", Ref(Len(H1.objs))) :
                         H1 \in {h \in {Construct([objs |-> <<>>, lists |-> << <<>> >>,
                                                    sets |-> [hs |-> EmptySet, c |-> NoSet],
                                                    err |-> "none", touched |-> {}], ctor) :
                                         ctor \in Ctors} : h.err = "none"}} :
          /\ objs = H.objs /\ lists = H.lists /\ sets = H.sets
          /\ hpLast = [NoOp EXCEPT !.touched = DOMAIN H.objs]
    /\ nops = 0
    /\ TreeIdle /\ ValIdle /\ MethIdle

NextHp ==
    \/ \E s \in SetNames, i \in DOMAIN HpKeys, lit \in Literals : AssignItem(s, HpKeys[i], lit)
    \/ \E s \in SetNames, i \in DOMAIN HpKeys, ctor \in Ctors : AssignItemHp(s, HpKeys[i], ctor)
    \/ \E s \in SetNames, i \in DOMAIN HpKeys, lit \in Literals : AssignAttr(s, HpKeys[i], lit)
    \/ \E s \in SetNames, o \in SetNames : Update(s, o)
    \/ \E K \in SubSeqs(HpKeys) : Copy(K)
    \/ \E s \in SetNames, i \in DOMAIN HpKeys, lit \in Literals : AssignValue(s, HpKeys[i], lit)
    \/ \E s \in SetNames, i \in DOMAIN HpKeys, dtype \in {"none", "int", "float"} :
          AssignDtype(s, HpKeys[i], dtype)
    \/ \E s \in SetNames, i \in DOMAIN HpKeys : AppendValue(s, HpKeys[i])
    \/ \E s \in SetNames, i \in DOMAIN HpKeys : AppendChoices(s, HpKeys[i])

SpecHp == InitHp /\ [][NextHp]_vars

\* methods objects in an environment
InitMeth ==
    /\ env \in Envs /\ meth = NoMethods
    /\ mLast = NoMCall /\ mPrev = NoMCall
    /\ energy = [m \in DOMAIN AniMols |-> [has |-> FALSE, call |-> 0]]
    /\ nmeth = 0
    /\ run = NoRun /\ afile = NoWeights /\ ntrain = 0
    /\ TreeIdle /\ ValIdle /\ HpIdle

NextMeth ==
    \/ \E method \in MethodNames, program \in {"None", "sparrow", "mopac"} :
          NewMethods(method, program)
    \/ MethodsPredict
    \/ \E class \in Classes : Train(class)
    \/ \E method \in AniMethodNames, m \in DOMAIN AniMols : AniMethodsPredict(method, m)

SpecMeth == InitMeth /\ [][NextMeth]_vars

\* trainings of ani models on one model file
InitAni == TreeIdle /\ ValIdle /\ HpIdle /\ MethIdle

NextAni ==
    \/ \E a \in TrainArgs : AniTrainRun(a)
    \/ RemoveFile

SpecAni == InitAni /\ [][NextAni]_vars

-----------------------------------------------------------------------------
(* Claims on predict *)

TreeCall  == lastCall.kind = "tree"
AnyCall   == lastCall.kind # "none"
Target    == lastCall.kw.target
Requested == SeqSet(Properties(lastCall.kw) \o AtomicProperties(lastCall.kw))
CallDB    == SeqSet(TreeMolDB(lastCall.kw).db)

\* C1: a predict call given both a molecule and a molecular database raises
\* ValueError and writes nothing onto any molecule, whatever the kind of model
C1_BothRejected ==
    (AnyCall /\ Target.hasDB /\ Target.hasMol) => (lastErr = "ValueError" /\ mols = before)

\* C2: a predict call given neither a molecule nor a molecular database raises
\* ValueError before any model is evaluated, whatever the kind of model
C2_NeitherRejected ==
    (AnyCall /\ ~Target.hasDB /\ ~Target.hasMol) => (lastErr = "ValueError" /\ evals = <<>>)

RECURSIVE LeafTotal(_, _, _, _)
\* the integer total of component i of property p over the leaf models ch
LeafTotal(ch, m, p, i) ==
    IF ch = <<>> THEN 0 ELSE LeafReport(Head(ch), m, p)[i].n + LeafTotal(Tail(ch), m, p, i)

LeafChildren(x) ==
    /\ ~tree[x].childrenNone /\ tree[x].children # <<>>
    /\ \A i \in DOMAIN tree[x].children : IsLeaf(tree, tree[x].children[i])

\* C3: after predict returns on a 'sum' ('average') node whose children are leaves,
\* every requested property of the node is the elementwise sum (mean) of the values
\* the children's models report
C3_SumAverage ==
    (TreeCall /\ lastErr = "none" /\ Target.hasDB # Target.hasMol
       /\ LeafChildren(lastCall.node) /\ tree[lastCall.node].operator \in {"sum", "average"})
    => \A m \in CallDB, p \in Requested :
         LET x  == lastCall.node
             ch == tree[x].children
             v  == mols[m].cont[x].vals[p]
         IN  /\ v.has
             /\ DOMAIN v.val = DOMAIN LeafReport(ch[1], m, p)
             /\ \A i \in DOMAIN v.val :
                  IF tree[x].operator = "sum"
                  THEN v.val[i].n = LeafTotal(ch, m, p, i) * v.val[i].d
                  ELSE v.val[i].n * Len(ch) = LeafTotal(ch, m, p, i) * v.val[i].d

C3_Witness ==
    /\ TreeCall /\ lastErr = "none" /\ Target.hasDB /\ ~Target.hasMol
    /\ lastCall.node = 1 /\ tree[1].operator = "average" /\ Len(tree[1].children) = 3
    /\ lastCall.kw.calculate_energy_gradients
    /\ \A m \in Mols : mols[m].cont[1].vals["energy_gradients"].has

\* C4: a predict call that repeats the previous one (same node, same arguments)
\* returns and leaves every container and every top-level property as they were
C4_Idempotent == repeated => (lastErr = "none" /\ mols = before)

C4_Witness ==
    /\ repeated /\ lastCall.node = 1 /\ ~tree[1].childrenNone
    /\ \A m \in CallDB : mols[m].cont[1].vals["energy"].has /\ mols[m].top["energy"].has

-----------------------------------------------------------------------------
(* Claims on the validation engine *)

Ops(l)         == [i \in DOMAIN l |-> l[i].op]
IsPrefix(s, t) == Len(s) <= Len(t) /\ s = SubSeq(t, 1, Len(s))
HoldoutCall    == res.call = "validate" /\ ~res.task.cv
CVCall         == res.call = "validate" /\ res.task.cv

\* C5 (as stated): a holdout trial that returns has trained on the subtraining split,
\* predicted on the validation split, computed the loss and then reset the model,
\* each once and in this order
C5_LossBeforeReset ==
    (HoldoutCall /\ res.err = "none") => Ops(log) = <<"train", "predict", "loss", "reset">>

\* C5 (amended): a holdout trial trains on the subtraining split, predicts on the
\* validation split, resets the model and then computes the loss, each once and in
\* this order; a trial that raises stops somewhere along this sequence
C5_HoldoutOrder ==
    HoldoutCall =>
        /\ IsPrefix(Ops(log), <<"train", "predict", "reset", "loss">>)
        /\ res.err = "none" => Len(log) = 4
        /\ Len(log) >= 1 => log[1].db = res.task.sub
        /\ Len(log) >= 2 => log[2].db = res.task.val

C5_Witness ==
    HoldoutCall /\ res.err = "none" /\ Ops(log) = <<"train", "predict", "reset", "loss">>

\* C6: cross-validation over k folds runs k cycles of train, predict, reset; cycle c
\* trains on exactly the molecules of the other folds and predicts on fold c, and
\* when it returns every molecule has been predicted in exactly one cycle
C6_CrossValidation ==
    CVCall =>
        LET splits == res.task.splits
            k      == Len(splits)
        IN  /\ Len(log) <= 3 * k + 1
            /\ \A i \in DOMAIN log :
                 i <= 3 * k => log[i].op = <<"train", "predict", "reset">>[((i - 1) % 3) + 1]
            /\ res.err = "none" => (Len(log) = 3 * k + 1 /\ log[3 * k + 1].op = "loss")
            /\ \A c \in 1..k :
                 /\ 3 * c - 2 <= Len(log) =>
                      /\ SeqSet(log[3 * c - 2].db) = UNION {SeqSet(splits[j]) : j \in (1..k) \ {c}}
                      /\ Len(log[3 * c - 2].db) = Cardinality(SeqSet(log[3 * c - 2].db))
                 /\ 3 * c - 1 <= Len(log) => log[3 * c - 1].db = splits[c]
            /\ res.err = "none" =>
                 \A m \in Data : Cardinality({c \in 1..k : m \in SeqSet(log[3 * c - 1].db)}) = 1

C6_Witness ==
    CVCall /\ res.err = "none" /\ Len(res.task.splits) >= 3 /\ Len(log) = 3 * Len(res.task.splits) + 1

\* C7: after reset ends a trial the model file the training wrote is gone, and every
\* training uses an equilibrium molecule (kreg), self-energies, a species order and
\* data sets (ani) taken from its own training data
C7_ResetClean ==
    res.call = "validate" =>
        \A i \in DOMAIN log :
            /\ log[i].op = "reset" => ~log[i].left
            /\ (log[i].op = "train" /\ (i < Len(log) \/ res.err = "none")) =>
                 /\ ml.variant = "kreg" => log[i].eq \in SeqSet(log[i].db)
                 /\ ml.variant = "ani" =>
                      /\ log[i].se = log[i].db
                      /\ log[i].so = ElementSymbols(log[i].db)
                      /\ log[i].data = log[i].db

ValidatedDB == IF res.task.cv THEN Flatten(res.task.splits) ELSE res.task.val

RECURSIVE SqErrY(_)
\* the sum over db of the squared errors of the scalar estimates the molecules carry
SqErrY(db) ==
    IF db = <<>> THEN 0
    ELSE LET e == dbs[db[1]].estimated_y.val[1] - RefY(db[1])
         IN  e * e + SqErrY(Tail(db))

RECURSIVE SqErrAtoms(_, _)
SqErrAtoms(m, a) ==
    IF a = 0 THEN 0
    ELSE LET e == dbs[m].estimated_xyz_derivatives_y.val[a] - RefG(m)[a]
         IN  e * e + SqErrAtoms(m, a - 1)

RECURSIVE SqErrG(_)
\* the same for every component of the derivative estimates
SqErrG(db) == IF db = <<>> THEN 0 ELSE SqErrAtoms(db[1], NAtoms) + SqErrG(Tail(db))

\* C8: with the default loss, a trial that learns only the scalar label returns the
\* RMSE of the scalar estimates (loss^2 = mean squared error), and a trial that learns
\* the scalar label and its derivatives returns the square root of the product of the
\* two RMSEs (loss^4 = product of the two mean squared errors)
C8_DefaultLoss ==
    (res.call = "validate" /\ res.err = "none") =>
        LET db == ValidatedDB
            n  == Len(db)
            tk == res.task.tk
            v  == res.val
        IN  /\ (tk.hasY /\ ~tk.hasG) =>
                 (v.root = 2 /\ v.rad.n * n = v.rad.d * SqErrY(db))
            /\ (tk.hasY /\ tk.hasG) =>
                 (v.root = 4 /\ v.rad.n * (n * n * NAtoms) = v.rad.d * (SqErrY(db) * SqErrG(db)))

C8_Witness ==
    /\ res.call = "validate" /\ res.err = "none"
    /\ res.task.tk.hasY /\ res.task.tk.hasG
    /\ res.val.root = 4 /\ res.val.rad.n > 0
    /\ SqErrY(ValidatedDB) # SqErrG(ValidatedDB)

-----------------------------------------------------------------------------
(* Claims on hyperparameter optimisation *)

\* the number of events one objective evaluation logs: the assignment, the cycles of
\* the trial, the loss and the return
EvalLen(task) == 3 * (IF task.cv THEN Len(task.splits) ELSE 1) + 3

\* C9: every objective evaluation of optimize_hyperparameters, under every search
\* strategy, gives the hyperparameter named by the i-th search variable the i-th entry
\* of the candidate vector (as its dtype stores it), leaves the other hyperparameters
\* unchanged, runs exactly one trial and returns the loss of that trial
C9_EvaluationContract ==
    res.call = "optimize" =>
        LET names == res.names
            L     == EvalLen(res.task)
        IN  \A i \in DOMAIN log :
              LET r == (i - 1) % L
                  e == log[i]
              IN  /\ (r = 0) <=> (e.op = "set")
                  /\ r = 0 =>
                       /\ Len(e.x) = Len(names)
                       /\ \A j \in DOMAIN names :
                            e.hp[names[j]] = CastDtype(ml.hyperparameters[names[j]].dtype, e.x[j])
                       /\ \A k \in DOMAIN e.hp : k \notin SeqSet(names) => e.hp[k] = e.hp0[k]
                  /\ (r >= 1 /\ r <= L - 3) => e.op = <<"train", "predict", "reset">>[((r - 1) % 3) + 1]
                  /\ r = L - 2 => e.op = "loss"
                  /\ r = L - 1 => (e.op = "ret" /\ e.val = log[i - 1].val)

C9_Witness ==
    /\ res.call = "optimize" /\ res.err = "none" /\ Len(res.names) = 2
    /\ Len(log) >= 4 * EvalLen(res.task)
    /\ \E i \in DOMAIN log : /\ log[i].op = "set" /\ log[i].x[1] # log[i].x[2]
                             /\ log[i].hp # log[i].hp0
                             /\ \E j \in 1..2 : log[i].hp[res.names[j]] # log[i].x[j]

RECURSIVE Product(_)
Product(grid) == IF grid = <<>> THEN 1 ELSE Len(Head(grid)) * Product(Tail(grid))

MultiValued(grid) == {a \in DOMAIN grid : Len(grid[a]) > 1}

\* the i-th point of the Cartesian product, the first axis varying slowest
LexPoint(grid, i) ==
    [a \in DOMAIN grid |->
        grid[a][(((i - 1) \div Product(SubSeq(grid, a + 1, Len(grid)))) % Len(grid[a])) + 1]]

GridPoint(grid, a, b) == <<grid[1][a], grid[2][b]>>

\* C11: on a grid of 2 axes with 3 candidates each and a convex quadratic loss,
\* optimize_grid returns a point of the grid whose loss no other of the 9 points
\* undercuts, the first such point in axis order when several tie, and the loss it
\* returns is the loss at that point
C11_ConvexOptimum ==
    (/\ res.call = "grid" /\ res.err = "none" /\ Len(res.grid) = 2
     /\ Len(res.grid[1]) = 3 /\ Len(res.grid[2]) = 3)
    => \E a, b \in 1..3 :
         /\ res.params = GridPoint(res.grid, a, b)
         /\ res.best = TableLoss(res.func, res.params)
         /\ \A c, d \in 1..3 :
              LET v == TableLoss(res.func, GridPoint(res.grid, c, d))
              IN  /\ ~RLess(v.rad, res.best.rad)
                  /\ v = res.best => (a < c \/ (a = c /\ b <= d))

\* a 3 by 3 search whose lowest loss is shared by several points, none of them the
\* first or the last of the grid
C11_Witness ==
    /\ res.call = "grid" /\ res.err = "none" /\ Len(res.grid) = 2
    /\ Len(res.grid[1]) = 3 /\ Len(res.grid[2]) = 3
    /\ Cardinality({p \in {GridPoint(res.grid, c, d) : c, d \in 1..3} :
                       TableLoss(res.func, p) = res.best}) >= 2
    /\ res.params # GridPoint(res.grid, 1, 1)
    /\ res.params # GridPoint(res.grid, 3, 3)

\* the number of events op among the first i of the log
CountOp(op, i) == Cardinality({j \in 1..i : log[j].op = op})

\* the i-th event is the train or the predict call in which the backend raised
Raised(i) ==
    \/ log[i].op = "train" /\ CountOp("train", i) = res.fail.t
    \/ log[i].op = "predict" /\ CountOp("predict", i) = res.fail.p

\* C12: when train or predict raises during a trial of optimize_hyperparameters, the
\* exception leaves optimize_hyperparameters and the raising call is the last thing the
\* search did: the point is not tried again, no loss is reported for it, and no other
\* point is evaluated after it
C12_FatalAbort ==
    res.call = "optimize" =>
        \A i \in DOMAIN log :
            Raised(i) => /\ res.err # "none"
                         /\ i = Len(log)
                         /\ CountOp("set", i) = CountOp("ret", i) + 1

\* a search that had completed one trial, and had more points to try, when train raised
C12_Witness ==
    /\ res.call = "optimize" /\ res.err = "RuntimeError" /\ res.fail.t = 2 /\ ~res.task.cv
    /\ res.algo.name = "grid" /\ res.algo.grid_size = 3
    /\ \E i \in DOMAIN log : Raised(i) /\ CountOp("ret", i) = 1

\* C27: optimize_hyperparameters leaves the model's model_file as it was: whenever the
\* call ends, by returning, with an unrecognised algorithm, or with an exception from
\* a trial, model_file is what it was before the call and not a path in the deleted
\* temporary directory.
C27_ModelFileRestored ==
    res.call = "optimize" => (ml.model_file = res.file0 /\ ~ml.model_file.tmp)

\* C30: optimize_hyperparameters ends after at most maximum_evaluations evaluations of
\* the loss, under every optimization algorithm, 'grid' included.
C30_EvaluationBudget ==
    res.call = "optimize" => CountOp("set", Len(log)) <= res.algo.maximum_evaluations

-----------------------------------------------------------------------------
(* Claims on hyperparameter and hyperparameters *)

\* C13: after every assignment to a hyperparameter's value (at construction, by direct
\* assignment, through item or attribute assignment on a hyperparameters object, or by
\* merging in another hyperparameter) the type of the value is the hyperparameter's
\* dtype, when the dtype is int, float or list
C13_TypeEqualsDtype ==
    \A id \in hpLast.touched :
        objs[id].dtype \in {"int", "float", "list"} => objs[id].value.t = objs[id].dtype

\* everything the operation named by hpLast' assigns is a key the object s held
AssignsPresentKeys ==
    LET s == hpLast'.s
    IN  /\ sets[s].exists /\ sets[s].isdict
        /\ \/ hpLast'.op \in {"setitem", "setitemhp", "setattr"}
              /\ hpLast'.key \in SeqSet(sets[s].keys)
           \/ hpLast'.op = "update"
              /\ sets[hpLast'.o].isdict
              /\ SeqSet(sets[hpLast'.o].keys) \subseteq SeqSet(sets[s].keys)

\* C14: item assignment, update and attribute-style assignment to keys already present
\* leave the keys, their order and the identity of the object under every key as they
\* were
C14_InPlace ==
    [][AssignsPresentKeys => sets'[hpLast'.s] = sets[hpLast'.s]]_vars

\* the fields of the hyperparameter under the i-th key of hs that a caller reads
HsFields(os, st, i) ==
    LET h == os[st.obj[i]]
    IN  [value |-> h.value, dtype |-> h.dtype, minval |-> h.minval, maxval |-> h.maxval,
         optimization_space |-> h.optimization_space]

Numeric(st) == \A i \in DOMAIN st.keys : objs[st.obj[i]].value.t \in {"int", "float"}

\* C15: c = hs.copy(K) followed by hs.update(c), on an hs with numeric values, leaves
\* every hyperparameter of hs with the value, dtype, bounds and optimization space it
\* had, and c holds exactly the keys of K with the values of hs
C15_RoundTrip ==
    [][(/\ hpLast.op = "copy" /\ hpLast.err = "none" /\ Numeric(sets.hs)
        /\ hpLast'.op = "update" /\ hpLast'.s = "hs")
       => /\ hpLast'.err = "none"
          /\ sets'.hs = sets.hs
          /\ \A i \in DOMAIN sets.hs.keys : HsFields(objs', sets.hs, i) = HsFields(objs, sets.hs, i)
          /\ sets.c.keys = hpLast.K
          /\ \A i \in DOMAIN sets.c.keys :
                objs[sets.c.obj[i]].value = objs[ObjOf(sets.hs, sets.c.keys[i])].value]_vars

\* what a caller can read from a hyperparameters object: under every key the fields of
\* the hyperparameter, with the elements of a list-valued value and of choices
View(os, ls, st) ==
    [i \in DOMAIN st.keys |->
        LET h == os[st.obj[i]]
        IN  [key |-> st.keys[i], dtype |-> h.dtype, name |-> h.name,
             minval |-> h.minval, maxval |-> h.maxval,
             optimization_space |-> h.optimization_space,
             value |-> IF h.value.t = "list" THEN PyList(0) ELSE h.value,
             elements |-> IF h.value.t = "list" THEN ls[h.value.v.n] ELSE <<>>,
             choices |-> ls[h.choices]]]

\* C16: after c = hs.copy(K), a change made through c (a new value, an element appended
\* to a list-valued value or to choices) leaves what hs holds unchanged, and a change
\* made through hs leaves what c holds unchanged
C16_DeepCopy ==
    [][(/\ hpLast.op = "copy" /\ hpLast.err = "none"
        /\ hpLast'.op \in {"setitem", "value", "append", "choices"})
       => /\ hpLast'.s = "c" => View(objs', lists', sets'.hs) = View(objs, lists, sets.hs)
          /\ hpLast'.s = "hs" => View(objs', lists', sets'.c) = View(objs, lists, sets.c)]_vars

-----------------------------------------------------------------------------
(* Claims on the deterministic methods and the pre-trained ANI methods *)

\* the programs whose registered names contain the name, whatever its letter case
Implementing(name) == {p \in Programs : Casefold(name) \in CasefoldedNames(p)}

\* both calls constructed a methods object without naming the program
BothNew == mLast.op = "new" /\ mPrev.op = "new" /\ mLast.program = "None" /\ mPrev.program = "None"

\* C17: in a fixed environment and with the program unspecified, constructing methods
\* with two names that differ only in letter case selects the same backend program, or
\* both constructions fail.
C17_CaseInsensitive ==
    ( /\ BothNew
      /\ Casefold(mLast.method) = Casefold(mPrev.method)
      /\ mLast.env0 = mPrev.env0 )
    => \/ mLast.err # "none" /\ mPrev.err # "none"
       \/ mLast.err = "none" /\ mPrev.err = "none" /\ mLast.interface = mPrev.interface

\* no location variable is set for a program that implements the name, and no program
\* is installed at the default path
NoBackend(call) ==
    /\ Implementing(call.method) # {}
    /\ "mndo" \in Implementing(call.method) => call.env0.mndobin = "unset"
    /\ "sparrow" \in Implementing(call.method) => call.env0.sparrowbin = "unset"
    /\ ~call.env0.installed

\* C18: constructing methods for a registered name when no backend is available fails
\* at construction with ValueError, and no methods object without a resolved backend is
\* returned.
C18_NoBackendFails ==
    mLast.op = "new" =>
        /\ (NoBackend(mLast) /\ Implementing(mLast.method) \subseteq {"mndo", "sparrow"})
               => mLast.err = "ValueError"
        /\ mLast.err = "none" => mLast.interface # "none"

\* C19: train on an object of a non-trainable class (the base model, methods,
\* model_tree_node) fails with NotImplementedError.
C19_TrainNotImplemented ==
    (mLast.op = "train" /\ mLast.class \in {"model", "methods", "model_tree_node"})
        => mLast.err = "NotImplementedError"

\* the molecule of the call has an atom outside the species of the method of the call
Unsupported(call) ==
    \E i \in DOMAIN AniMols[call.mol] :
        AniMols[call.mol][i] \notin AtomicNumberAvailable(call.ani)

\* C20: predicting with a neural-network model on a molecule with an element outside
\* the supported species fails with an error; it never returns normally leaving the
\* molecule without an energy computed by this call.
C20_UnsupportedElementFails ==
    (mLast.op = "ani_predict" /\ Unsupported(mLast))
        => /\ mLast.err # "none"
           /\ ~(mLast.err = "none" /\ energy[mLast.mol].call # nmeth)

-----------------------------------------------------------------------------
(* Claims on the model tree: missing values, caching and write-back *)

\* the evaluations of a call in which the wrapped model returned without writing
SilentEvals(es) == {i \in DOMAIN es : es[i] \in silent}

\* C21: when a wrapped model returns from predict without writing a requested
\* property, the call fails: a leaf of the tree records for itself no value that an
\* earlier model left in the molecule's top-level property, and the ASE calculator
\* raises instead of using an energy that was already on the molecule.
C21_MissingPropertyPropagates ==
    /\ (lastCall.kind = "tree" /\ SilentEvals(evals) # {}) =>
          /\ lastErr # "none"
          /\ \A i \in SilentEvals(evals) : \A p \in {"energy", "hessian"} :
                mols[evals[i][2]].cont[evals[i][1]].vals[p] =
                    before[evals[i][2]].cont[evals[i][1]].vals[p]
    /\ (results.op = "calculate" /\ SilentEvals(results.evals) = DOMAIN results.evals) =>
          results.err # "none"

\* the number of places of a sequence that hold x
Count(s, x) == Cardinality({i \in DOMAIN s : s[i] = x})

HasChildren(n)  == ~tree[n].childrenNone /\ tree[n].children # <<>>
HasLeafModel(n) == tree[n].hasModel /\ tree[n].operator = "predict"

\* C22: every model_tree_node that can be constructed (directly or by load_dict) has
\* exactly one of: a non-empty list of children, or a leaf model together with
\* operator = 'predict'.
C22_ExactlyOneRole ==
    \A n \in DOMAIN tree : HasChildren(n) # HasLeafModel(n)

\* C26: after any sequence of constructions the parent and child links agree: every
\* child of a node names that node as its parent, and every node with a parent is
\* exactly once in its parent's children.
C26_LinksAgree ==
    \A n \in DOMAIN tree :
        /\ \A i \in DOMAIN tree[n].children : tree[tree[n].children[i]].parent = n
        /\ tree[n].parent # 0 => Count(tree[tree[n].parent].children, n) = 1

\* the nodes below node x (the trees have at most two levels below the root)
Below(x) ==
    LET d1 == SeqSet(tree[x].children)
    IN  d1 \cup UNION {SeqSet(tree[y].children) : y \in d1}

\* C23: when predict on a tree with a database returns, a child has been evaluated for
\* exactly the molecules that did not carry its container before, every molecule of the
\* database carries a container for every node of the tree, and no child has been
\* evaluated twice for the same molecule.
C23_PerMoleculeCache ==
    (TreeCall /\ lastErr = "none" /\ Target.hasDB /\ ~Target.hasMol) =>
        /\ \A m \in CallDB : \A x \in Below(lastCall.node) \cup {lastCall.node} :
              mols[m].cont[x].present
        /\ \A m \in CallDB : \A l \in Below(lastCall.node) :
              IsLeaf(tree, l) =>
                  (Count(evals, <<l, m>>) = IF before[m].cont[l].present THEN 0 ELSE 1)

\* the leaf model that wrote last onto molecule m in the last call (0 when none did)
LastLeaf(m) ==
    LET is == {i \in DOMAIN evals : evals[i][2] = m}
    IN  IF is = {} THEN 0 ELSE evals[CHOOSE i \in is : \A j \in is : j <= i][1]

\* C24: when predict on the root of a tree returns, each requested top-level property
\* of the molecule equals the root's combined value; predict on a node that has a
\* parent writes nothing back: the top-level properties are those the leaf models left.
C24_RootWriteBack ==
    TreeCall =>
        IF tree[lastCall.node].parent = 0
        THEN lastErr = "none" =>
                \A m \in CallDB, p \in Requested :
                    /\ mols[m].top[p].has
                    /\ mols[m].top[p] = mols[m].cont[lastCall.node].vals[p]
        ELSE \A m \in Mols, p \in PropNames :
                mols[m].top[p] = IF LastLeaf(m) # 0 /\ p \in Requested
                                 THEN Val(LeafReport(LastLeaf(m), m, p))
                                 ELSE before[m].top[p]

\* a root over three leaves returned, and the molecule's energy is the root's sum and
\* not the value of the leaf that wrote last
C24_Witness ==
    /\ TreeCall /\ lastErr = "none" /\ lastCall.node = 1
    /\ tree[1].operator = "sum" /\ Len(tree[1].children) = 3
    /\ \E m \in CallDB :
          /\ LastLeaf(m) = 4
          /\ mols[m].top["energy"] = mols[m].cont[1].vals["energy"]
          /\ mols[m].top["energy"] # Val(LeafReport(4, m, "energy"))

\* before the last call every node of the called tree held, for molecule m, an energy
\* and no gradients
EnergyOnly(m) ==
    \A x \in Below(lastCall.node) \cup {lastCall.node} :
        /\ before[m].cont[x].present
        /\ before[m].cont[x].vals["energy"].has
        /\ ~before[m].cont[x].vals["energy_gradients"].has

\* C29: after predict has annotated a molecule with energy only, a later predict on
\* the same tree and molecule that also requests gradients returns with the gradients
\* of every child and of the root computed for that molecule.
C29_LaterGradients ==
    (TreeCall /\ tree[lastCall.node].parent = 0 /\ lastCall.kw.calculate_energy_gradients) =>
        \A m \in CallDB :
            EnergyOnly(m) =>
                /\ lastErr = "none"
                /\ \A x \in Below(lastCall.node) \cup {lastCall.node} :
                      mols[m].cont[x].vals["energy_gradients"].has

-----------------------------------------------------------------------------
(* Claims on ani.train *)

\* the validations of the last training that looked at the weights w
RmsesOf(w) == {run.validated[i].rmse : i \in {j \in DOMAIN run.validated : run.validated[j].w = w}}

\* C25: when ani.train runs with save_model=True and use_last_model=False, whatever
\* save_every_epoch is, the weights active after train returns are weights that
\* reached the lowest validation RMSE among the epochs validated in that training.
C25_BestWeightsActive ==
    (run.op = "train" /\ run.args.save_model /\ ~run.args.use_last_model
       /\ run.validated # <<>>) =>
        /\ run.err = "none"
        /\ \E r \in RmsesOf(run.active) :
              \A i \in DOMAIN run.validated : r <= run.validated[i].rmse

-----------------------------------------------------------------------------
(* Claims on the environment of the methods *)

\* the environment the user set: the "default" value of mndobin is written only by
\* methods.__init__
UserEnv(E) == IF E.mndobin = "default" THEN [E EXCEPT !.mndobin = "unset"] ELSE E

\* C28: constructing a methods object, whether it succeeds or raises, leaves the
\* process environment (the mndobin variable and PATH) unchanged, so the backend a
\* name resolves to is the one it resolves to in the environment the user set.
C28_EnvironmentUnchanged ==
    mLast.op = "new" =>
        /\ env = mLast.env0
        /\ \E R \in {MethodsInit(UserEnv(mLast.env0), mLast.method, mLast.program)} :
              /\ R.err = mLast.err
              /\ R.obj.interface = mLast.interface

====
